---- MODULE Spec2Model ----
(***************************************************************************)
(* DataVault: the local Record Store (class Database), its Query Engine    *)
(* (Database.queryRecords) and the Repository Coordinator (AIRepository)   *)
(* on top of the remote ledger client (IrysUploader).                      *)
(***************************************************************************)
EXTENDS Integers, Sequences, FiniteSets, TLC

VARIABLES store, upserted, out, trav, now, ledger, calls, batch, db, fetch

vars == <<store, upserted, out, trav, now, ledger, calls, batch, db, fetch>>
coordVars == <<now, ledger, calls, batch>>

(***************************************************************************)
(* Bounds of the model.                                                    *)
(***************************************************************************)
MaxRows == 3
MaxLimit == 2
MaxTx == 3
MaxClock == 3
MaxExtra == 1

(***************************************************************************)
(* Optional values: undefined / NULL is the empty sequence.                *)
(***************************************************************************)
None == <<>>
Some(v) == <<v>>

(* JS truthiness of an optional string: undefined and "" are falsy. *)
Truthy(opt) == opt # None /\ opt[1] # ""

(***************************************************************************)
(* DatasetMetadata: the seven tag fields.                                  *)
(***************************************************************************)
TagFields == {"app", "contentType", "datasetName", "split", "version", "owner", "createdAt"}

MetaA ==
  [app |-> "vault", contentType |-> "application/json", datasetName |-> "mnist",
   split |-> "train", version |-> "2.0.0", owner |-> "alice", createdAt |-> "2024-01-01T00:00:00.000Z"]
MetaB == [MetaA EXCEPT !.owner = "bob"]
MetaC == [MetaA EXCEPT !.version = "1.0.0"]
MetaD == [MetaA EXCEPT !.split = "test"]

(***************************************************************************)
(* JSON.  A JS value that carries metadata m is [enc |-> k, m |-> m]:      *)
(* k = 0 is the object itself, k > 0 is a string whose content is the JSON *)
(* text of the value of encoding k - 1.                                    *)
(***************************************************************************)
JsObject(m) == [enc |-> 0, m |-> m]
JSONstringify(v) == [v EXCEPT !.enc = @ + 1]
JSONparse(s) == [s EXCEPT !.enc = @ - 1]
IsJsString(v) == v.enc > 0

(* SQLite json_extract(text, '$.field'): NULL unless the text is a JSON object. *)
JsonExtract(text, field) ==
  LET v == JSONparse(text) IN IF v.enc = 0 THEN Some(v.m[field]) ELSE None

(***************************************************************************)
(* Dates and cursors: an ISO-8601 string of instant n, the decimal string  *)
(* of integer n.                                                           *)
(***************************************************************************)
ToISOString(n) == [iso |-> n]
DateGetTime(s) == s.iso
NumToString(n) == [str |-> n]
ParseInt(s) == s.str

(***************************************************************************)
(* The datasets table.  A row is                                           *)
(* [id, transactionId, timestamp, tags (JSON text), receipt, createdAt].   *)
(***************************************************************************)
Columns == {"id", "transaction_id", "timestamp", "tags", "receipt", "created_at"}

RecordToRow(record) ==
  [id |-> record.id, transactionId |-> record.transactionId,
   timestamp |-> record.timestamp, tags |-> JSONstringify(record.tags),
   receipt |-> record.receipt, createdAt |-> record.createdAt]

RowToRecord(row) ==
  [id |-> row.id, transactionId |-> row.transactionId,
   timestamp |-> row.timestamp, tags |-> JSONparse(row.tags),
   receipt |-> row.receipt, createdAt |-> row.createdAt]

(* A mutated table in which timestamp is UNIQUE as well: the replace also
   deletes the rows with the timestamp of the new row. *)
InsertOrReplaceUniqueTimestamp(rows, row) ==
  {r \in rows : r.id # row.id /\ r.transactionId # row.transactionId
                 /\ r.timestamp # row.timestamp} \cup {row}

(* INSERT OR REPLACE: rows in conflict on the PRIMARY KEY id or on the
   UNIQUE transaction_id are deleted, then the row is inserted. *)
InsertOrReplace(rows, row) ==
  {r \in rows : r.id # row.id /\ r.transactionId # row.transactionId} \cup {row}

(* Plain INSERT: a constraint conflict is an error and the table is unchanged. *)
InsertRecordNoReplace(rows, record) ==
  LET row == RecordToRow(record)
      conflict == \E r \in rows : r.id = row.id \/ r.transactionId = row.transactionId
  IN  IF conflict THEN [ok |-> FALSE, rows |-> rows]
      ELSE [ok |-> TRUE, rows |-> rows \cup {row}]

(* Database.insertRecord: the outcome and the table after it. *)
InsertRecord(rows, record) ==
  [ok |-> TRUE, rows |-> InsertOrReplace(rows, RecordToRow(record))]

(***************************************************************************)
(* The Database constructor and initialize().  db is the connection:       *)
(* whether the datasets table exists, the state of the promise of          *)
(* initialize(), the statements issued and not yet executed, and the       *)
(* outcomes of the executed statements of the operations.                  *)
(***************************************************************************)
(* The statements of initialize(), each awaited before the next is issued: the
   table, then its indexes. *)
SchemaStatements ==
  <<"datasets", "idx_dataset_name", "idx_split", "idx_version", "idx_content_type",
    "idx_app", "idx_owner", "idx_timestamp">>

(* The connection when the constructor has returned: initialize() was called and
   not awaited, its first statement is issued. *)
NewDatabase(existing) ==
  [table |-> existing, init |-> "running", issued |-> 0,
   pending |-> {[n |-> 0, kind |-> "schema", k |-> 1]}, done |-> {}]

(* The connection after initialize() has resolved. *)
ReadyDb ==
  [table |-> TRUE, init |-> "resolved", issued |-> 0, pending |-> {}, done |-> {}]

(***************************************************************************)
(* IrysFetcher.fetchFile.  fetch is the local file system (path -> content *)
(* or none) and the fetchFile calls in progress.                           *)
(***************************************************************************)
(* path.join('./downloads', `${transactionId}.bin`) *)
GenerateLocalPath(transactionId) ==
  [dir |-> "./downloads", id |-> transactionId, name |-> ".bin"]

NoFetch == [disk |-> <<>>, calls |-> <<>>]

(***************************************************************************)
(* Database.queryRecords                                                   *)
(***************************************************************************)
NoFilters ==
  [datasetName |-> None, split |-> None, version |-> None, contentType |-> None,
   app |-> None, owner |-> None, startTime |-> None, endTime |-> None]

TagEquals(row, filters, field) ==
  Truthy(filters[field]) => JsonExtract(row.tags, field) = Some(filters[field][1])

(* The WHERE clauses built from the filters. *)
WhereFilters(row, filters) ==
  /\ TagEquals(row, filters, "datasetName")
  /\ TagEquals(row, filters, "split")
  /\ TagEquals(row, filters, "version")
  /\ TagEquals(row, filters, "contentType")
  /\ TagEquals(row, filters, "app")
  /\ TagEquals(row, filters, "owner")
  /\ (filters.startTime # None => row.timestamp >= DateGetTime(filters.startTime[1]))
  /\ (filters.endTime # None => row.timestamp <= DateGetTime(filters.endTime[1]))

(* A mutated cursor clause: the comparison is not strict. *)
WhereCursorInclusive(row, sortOrder, cursor) ==
  cursor # None =>
    IF sortOrder = "desc" THEN row.timestamp <= ParseInt(cursor[1])
    ELSE row.timestamp >= ParseInt(cursor[1])

(* The WHERE clause of the cursor. *)
WhereCursor(row, sortOrder, cursor) ==
  cursor # None =>
    IF sortOrder = "desc" THEN row.timestamp < ParseInt(cursor[1])
    ELSE row.timestamp > ParseInt(cursor[1])

Selected(rows, filters, sortOrder, cursor) ==
  {r \in rows : WhereFilters(r, filters) /\ WhereCursor(r, sortOrder, cursor)}

(* ORDER BY timestamp ASC|DESC LIMIT k: every row sequence the statement may
   return; rows of equal timestamp come in any order. *)
RECURSIVE OrderByLimit(_, _, _)
OrderByLimit(rows, sortOrder, k) ==
  IF rows = {} \/ k = 0 THEN {<<>>}
  ELSE LET first == {r \in rows : \A q \in rows :
                       IF sortOrder = "desc" THEN r.timestamp >= q.timestamp
                       ELSE r.timestamp <= q.timestamp}
       IN  UNION {{<<r>> \o rest : rest \in OrderByLimit(rows \ {r}, sortOrder, k - 1)} : r \in first}

(* A mutated page: the cursor is taken from the first row of the page. *)
PageOfRowsCursorOfFirst(rows, limit) ==
  LET hasMore == Len(rows) > limit
      records == IF hasMore THEN SubSeq(rows, 1, limit) ELSE rows
  IN  [ok |-> TRUE,
       records |-> [i \in 1..Len(records) |-> RowToRecord(records[i])],
       nextCursor |-> IF hasMore /\ Len(records) > 0
                      THEN Some(NumToString(records[1].timestamp)) ELSE None]

(* A mutated page: the cursor is taken from the dropped extra row. *)
PageOfRowsCursorOfExtra(rows, limit) ==
  LET hasMore == Len(rows) > limit
      records == IF hasMore THEN SubSeq(rows, 1, limit) ELSE rows
  IN  [ok |-> TRUE,
       records |-> [i \in 1..Len(records) |-> RowToRecord(records[i])],
       nextCursor |-> IF hasMore /\ Len(records) > 0
                      THEN Some(NumToString(rows[Len(rows)].timestamp)) ELSE None]

(* A mutated page: hasMore is off by one. *)
PageOfRowsHasMoreAtLimit(rows, limit) ==
  LET hasMore == Len(rows) >= limit
      records == IF hasMore THEN SubSeq(rows, 1, limit) ELSE rows
  IN  [ok |-> TRUE,
       records |-> [i \in 1..Len(records) |-> RowToRecord(records[i])],
       nextCursor |-> IF hasMore /\ Len(records) > 0
                      THEN Some(NumToString(records[Len(records)].timestamp)) ELSE None]

(* hasMore, records and nextCursor from the limit + 1 rows fetched. *)
PageOfRows(rows, limit) ==
  LET hasMore == Len(rows) > limit
      records == IF hasMore THEN SubSeq(rows, 1, limit) ELSE rows
  IN  [ok |-> TRUE,
       records |-> [i \in 1..Len(records) |-> RowToRecord(records[i])],
       nextCursor |-> IF hasMore /\ Len(records) > 0
                      THEN Some(NumToString(records[Len(records)].timestamp)) ELSE None]

QueryError == [ok |-> FALSE, records |-> <<>>, nextCursor |-> None]

(* The set of outcomes of queryRecords(filters, sortBy, sortOrder, limit, cursor):
   ORDER BY a name that is no column of the table is an SQL error. *)
QueryRecords(rows, filters, sortBy, sortOrder, limit, cursor) ==
  IF sortBy \notin Columns THEN {QueryError}
  ELSE {PageOfRows(rs, limit) :
          rs \in OrderByLimit(Selected(rows, filters, sortOrder, cursor), sortOrder, limit + 1)}

(***************************************************************************)
(* AIRepository.queryData                                                  *)
(***************************************************************************)
DefaultLimit == 50

(* a || b on an optional string *)
OrElse(opt, default) == IF Truthy(opt) THEN opt[1] ELSE default

(* options.limit || 50: undefined and 0 are falsy *)
LimitOrDefault(opt) == IF opt # None /\ opt[1] # 0 THEN opt[1] ELSE DefaultLimit

(* typeof record.tags === 'string' ? JSON.parse(record.tags) : record.tags *)
TagsOfRecord(record) ==
  IF IsJsString(record.tags) THEN JSONparse(record.tags) ELSE record.tags

QueryResultOf(record) ==
  [id |-> record.transactionId, timestamp |-> record.timestamp,
   tags |-> TagsOfRecord(record), receipt |-> record.receipt,
   cursor |-> Some(NumToString(record.timestamp))]

(* The outcomes of queryData(options): {results, nextCursor}, or the thrown
   "Query failed" error. *)
QueryData(rows, options) ==
  {IF local.ok
   THEN [ok |-> TRUE,
         results |-> [i \in 1..Len(local.records) |-> QueryResultOf(local.records[i])],
         nextCursor |-> local.nextCursor]
   ELSE [ok |-> FALSE, results |-> <<>>, nextCursor |-> None] :
   local \in QueryRecords(rows, options.filters,
                          OrElse(options.sortBy, "timestamp"),
                          OrElse(options.sortOrder, "desc"),
                          LimitOrDefault(options.limit),
                          options.cursor)}

(***************************************************************************)
(* The Record Store and Query Engine driven directly: records are upserted *)
(* and a caller pages through queryData by following nextCursor.           *)
(***************************************************************************)
Ids == 1..MaxRows
Timestamps == 1..MaxRows

LineageFilters == [NoFilters EXCEPT !.datasetName = Some("mnist"), !.split = Some("train")]
OwnerFilters == [LineageFilters EXCEPT !.owner = Some("alice")]
TimeFilters == [NoFilters EXCEPT !.startTime = Some(ToISOString(2)), !.endTime = Some(ToISOString(3))]

StoreTags == {JsObject(MetaA), JsObject(MetaB)}

(* The DatabaseRecords handed to insertRecord. *)
StoreRecords ==
  {[id |-> i, transactionId |-> i, timestamp |-> t, tags |-> g,
    receipt |-> None, createdAt |-> ToISOString(t)] :
   i \in Ids, t \in Timestamps, g \in StoreTags}

TravOptions ==
  [filters : {NoFilters, OwnerFilters, TimeFilters},
   sortBy : {None, Some("createdAt")},
   sortOrder : {None, Some("asc")},
   limit : {None} \cup {Some(n) : n \in 1..MaxLimit},
   cursor : {None}]

NoOut == [op |-> "none", ok |-> TRUE, id |-> 0, replaced |-> FALSE, retagged |-> FALSE]

(* No batchUpload call in progress. *)
IdleBatch ==
  [pc |-> "idle", files |-> <<>>, wantReceipt |-> FALSE, batchSize |-> 0, i |-> 0,
   st |-> <<>>, res |-> <<>>, order |-> <<>>, results |-> <<>>, records |-> <<>>,
   k |-> 0, cause |-> "none", waits |-> 0, issued |-> <<>>, batchSizeOpt |-> None,
   before |-> {}]

(* The record most recently handed to insertRecord, per id. *)
LatestUpserts(log, record) == {u \in log : u.id # record.id} \cup {record}

IdleTrav ==
  [state |-> "idle", options |-> [filters |-> NoFilters, sortBy |-> None,
                                  sortOrder |-> None, limit |-> None, cursor |-> None],
   page |-> <<>>, next |-> None, seen |-> <<>>, cursors |-> <<>>]

InitStore ==
  /\ store = {}
  /\ upserted = {}
  /\ out = NoOut
  /\ trav = IdleTrav
  /\ now = 1
  /\ ledger = <<>>
  /\ calls = <<>>
  /\ batch = IdleBatch
  /\ db = ReadyDb
  /\ fetch = NoFetch

(* await database.insertRecord(record), called on the Database directly; ids are
   named 1, 2, ... in the order of their first insert. *)
DbInsertRecord(record) ==
  /\ trav.state = "idle"
  /\ record.id <= Cardinality(store) + 1
  /\ LET res == InsertRecord(store, record)
     IN  /\ store' = res.rows
         /\ out' = [op |-> "insertRecord", ok |-> res.ok, id |-> record.id,
                    replaced |-> \E r \in store : r.id = record.id,
                    retagged |-> \E r \in store :
                                   r.id = record.id /\ JSONparse(r.tags) # record.tags]
  /\ upserted' = LatestUpserts(upserted, record)
  /\ UNCHANGED <<db, fetch, trav, coordVars>>

(* One iteration of the paging loop: query with the current cursor, keep the page,
   take nextCursor as the cursor of the next iteration; cursors keeps the cursors
   returned so far. *)
TravQuery(options) ==
  \E res \in QueryData(store, options) :
    /\ trav' = [state |-> IF ~res.ok THEN "failed"
                          ELSE IF res.nextCursor = None THEN "done" ELSE "open",
                options |-> options, page |-> res.results, next |-> res.nextCursor,
                seen |-> trav.seen \o res.results,
                cursors |-> IF res.nextCursor = None THEN trav.cursors
                            ELSE Append(trav.cursors, res.nextCursor[1])]
    /\ out' = NoOut
    /\ UNCHANGED <<db, fetch, store, upserted, coordVars>>

StartTraversal(options) ==
  /\ trav.state = "idle"
  /\ TravQuery(options)

NextPage ==
  /\ trav.state = "open"
  /\ TravQuery([trav.options EXCEPT !.cursor = trav.next])

EndTraversal ==
  /\ trav.state \in {"done", "failed"}
  /\ trav' = IdleTrav
  /\ UNCHANGED <<db, fetch, store, upserted, out, coordVars>>

NextStore ==
  \/ \E record \in StoreRecords : DbInsertRecord(record)
  \/ \E options \in TravOptions : StartTraversal(options)
  \/ NextPage
  \/ EndTraversal

SpecStore == InitStore /\ [][NextStore]_vars

(***************************************************************************)
(* IrysUploader: the remote ledger client.                                 *)
(***************************************************************************)
(* The files that exist on disk (fs.pathExists). *)
Files == {"data.bin", "more.bin"}

PrepareTags(metadata) ==
  <<[name |-> "App", value |-> metadata.app],
    [name |-> "Content-Type", value |-> metadata.contentType],
    [name |-> "Dataset-Name", value |-> metadata.datasetName],
    [name |-> "Split", value |-> metadata.split],
    [name |-> "Version", value |-> metadata.version],
    [name |-> "Owner", value |-> metadata.owner],
    [name |-> "Created-At", value |-> metadata.createdAt]>>

(* A JavaScript Error; its message is the sequence of the segments that the
   template strings `Prefix: ${error.message}` put together. *)
NoError == [name |-> "", message |-> <<>>]
NewError(message) == [name |-> "Error", message |-> message]
(* new Error(`Prefix: ${error.message}`) *)
WrapError(prefix, error) == NewError(<<prefix>> \o error.message)

(* What irys.uploadFile did: a response {id, signature}, or it threw; the file
   precheck throws before the remote write is started. *)
RemoteFailed ==
  [ok |-> FALSE, cause |-> "remote", id |-> 0, signature |-> None,
   error |-> NewError(<<"remote error">>)]
FileNotFound ==
  [ok |-> FALSE, cause |-> "not_found", id |-> 0, signature |-> None,
   error |-> NewError(<<"File not found">>)]
RemoteResponse(id, signature) ==
  [ok |-> TRUE, cause |-> "none", id |-> id, signature |-> signature, error |-> NoError]

(* A mutated uploader: the catch block swallows the error and the result is
   returned with an undefined transaction id. *)
UploaderUploadFileSwallow(wantReceipt, response) ==
  [ok |-> TRUE,
   result |-> [transactionId |-> response.id,
               receipt |-> IF wantReceipt THEN response.signature ELSE None],
   error |-> NoError]

(* IrysUploader.uploadFile after the precheck and the remote write: the result
   {transactionId, receipt?}, or the rethrown "Upload failed" error. *)
UploaderUploadFile(wantReceipt, response) ==
  IF response.ok
  THEN [ok |-> TRUE,
        result |-> [transactionId |-> response.id,
                    receipt |-> IF wantReceipt THEN response.signature ELSE None],
        error |-> NoError]
  ELSE [ok |-> FALSE, result |-> [transactionId |-> 0, receipt |-> None],
        error |-> WrapError("Upload failed", response.error)]

(***************************************************************************)
(* AIRepository.uploadFile                                                 *)
(***************************************************************************)
(* The DatabaseRecord built after a successful remote write, at clock t. *)
DbRecordOf(result, metadata, t) ==
  [id |-> result.transactionId, transactionId |-> result.transactionId,
   timestamp |-> t, tags |-> JSONstringify(JsObject(metadata)),
   receipt |-> result.receipt, createdAt |-> ToISOString(t)]

NoResult == [transactionId |-> 0, receipt |-> None]

(* The error with which the storage engine rejects a statement. *)
SqliteError == NewError(<<"SQLITE_ERROR">>)

IdleCall ==
  [pc |-> "idle", buffer |-> FALSE, path |-> "", metadata |-> MetaA, wantReceipt |-> FALSE,
   result |-> NoResult, record |-> None, remoteFailed |-> FALSE, before |-> {},
   error |-> NoError]

(* A mutated uploadFile: the record is built and its insert issued whatever the
   outcome of the uploader. *)
AfterUploaderIndexAnyway(call, o, response, t) ==
  [call EXCEPT !.pc = "indexing", !.result = o.result,
               !.record = Some(DbRecordOf(o.result, call.metadata, t)),
               !.remoteFailed = ~response.ok]

(* The call after the uploader settled with outcome o at clock t: the record is
   built and its insert issued, or the error is rethrown. *)
AfterUploader(call, o, response, t) ==
  IF o.ok
  THEN [call EXCEPT !.pc = "indexing", !.result = o.result,
                    !.record = Some(DbRecordOf(o.result, call.metadata, t)),
                    !.remoteFailed = ~response.ok]
  ELSE [call EXCEPT !.pc = "thrown", !.remoteFailed = ~response.ok,
                    !.error = WrapError("Upload failed", o.error)]

(* uploadFile(filePath, metadata, {receipt}) is called: the uploader's uploadFile
   is awaited (the check that the file exists, then the remote write). *)
UploadFileStarted(c, path, metadata, wantReceipt) ==
  /\ calls[c].pc = "idle"
  /\ calls' = [calls EXCEPT ![c] =
                 [IdleCall EXCEPT !.pc = "remote", !.path = path, !.metadata = metadata,
                                  !.wantReceipt = wantReceipt, !.before = store]]
  /\ UNCHANGED <<db, fetch, store, upserted, out, trav, now, ledger, batch>>

(* The call of a client that has taken its last result and has no batchUpload in
   progress. *)
UploadFileCall(c, path, metadata, wantReceipt) ==
  /\ out = NoOut
  /\ batch.pc = "idle"
  /\ UploadFileStarted(c, path, metadata, wantReceipt)

(* uploadBuffer(buffer, filename, metadata, {receipt}) is called: the uploader's
   uploadBuffer is awaited (the remote write; no file is read). *)
UploadBufferCall(c, filename, metadata, wantReceipt) ==
  /\ calls[c].pc = "idle"
  /\ out = NoOut
  /\ batch.pc = "idle"
  /\ calls' = [calls EXCEPT ![c] =
                 [IdleCall EXCEPT !.pc = "remote", !.buffer = TRUE, !.path = filename,
                                  !.metadata = metadata, !.wantReceipt = wantReceipt,
                                  !.before = store]]
  /\ UNCHANGED <<db, fetch, store, upserted, out, trav, now, ledger, batch>>

(* The file of the call exists, or the call uploads a buffer. *)
PathExists(call) == call.buffer \/ call.path \in Files

(* The remote write succeeds: the ledger holds the transaction. *)
RemoteWriteOk(c, signature) ==
  /\ calls[c].pc = "remote"
  /\ PathExists(calls[c])
  /\ Len(ledger) < MaxTx
  /\ LET id == Len(ledger) + 1
         response == RemoteResponse(id, signature)
     IN  /\ ledger' = Append(ledger, [id |-> id, tags |-> PrepareTags(calls[c].metadata)])
         /\ calls' = [calls EXCEPT ![c] =
                        AfterUploader(@, UploaderUploadFile(@.wantReceipt, response), response, now)]
  /\ UNCHANGED <<db, fetch, store, upserted, out, trav, now, batch>>

(* The file does not exist, or the remote write throws. *)
RemoteWriteFail(c) ==
  /\ calls[c].pc = "remote"
  /\ LET response == IF PathExists(calls[c]) THEN RemoteFailed ELSE FileNotFound
     IN  calls' = [calls EXCEPT ![c] =
                     AfterUploader(@, UploaderUploadFile(@.wantReceipt, response), response, now)]
  /\ UNCHANGED <<db, fetch, store, upserted, out, trav, now, ledger, batch>>

(* A mutated uploadFile: the id of the record is read, when the insert is made,
   from a field shared by the calls that holds the latest transaction id. *)
IndexDoneSharedId(c) ==
  /\ calls[c].pc = "indexing"
  /\ LET record == [calls[c].record[1] EXCEPT !.id = Len(ledger),
                                              !.transactionId = Len(ledger)]
         res == InsertRecord(store, record)
     IN  /\ store' = res.rows
         /\ upserted' = LatestUpserts(upserted, record)
  /\ calls' = [calls EXCEPT ![c].pc = "returned"]
  /\ UNCHANGED <<db, fetch, out, trav, now, ledger, batch>>

(* The insert completes and uploadFile returns the upload result. *)
IndexDone(c) ==
  /\ calls[c].pc = "indexing"
  /\ LET res == InsertRecord(store, calls[c].record[1])
     IN  /\ store' = res.rows
         /\ calls' = [calls EXCEPT ![c] =
                        IF res.ok THEN [@ EXCEPT !.pc = "returned"]
                        ELSE [@ EXCEPT !.pc = "thrown",
                                       !.error = WrapError("Upload failed", SqliteError)]]
  /\ upserted' = LatestUpserts(upserted, calls[c].record[1])
  /\ UNCHANGED <<db, fetch, out, trav, now, ledger, batch>>

(* The insert is rejected by the storage engine: uploadFile throws. *)
IndexFail(c) ==
  /\ calls[c].pc = "indexing"
  /\ calls' = [calls EXCEPT ![c] =
                 [@ EXCEPT !.pc = "thrown", !.error = WrapError("Upload failed", SqliteError)]]
  /\ UNCHANGED <<db, fetch, store, upserted, out, trav, now, ledger, batch>>

(* The caller takes the result or the error. *)
CallSettled(c) ==
  /\ calls[c].pc \in {"returned", "thrown"}
  /\ calls' = [calls EXCEPT ![c] = IdleCall]
  /\ UNCHANGED <<db, fetch, store, upserted, out, trav, now, ledger, batch>>

(* Date.now() advances. *)
Tick ==
  /\ now < MaxClock
  /\ now' = now + 1
  /\ UNCHANGED <<db, fetch, store, upserted, out, trav, ledger, calls, batch>>

(***************************************************************************)
(* AIRepository.getLatestVersion / getVersions                             *)
(***************************************************************************)
(* { datasetName, ...(split && { split }) } *)
LineageOf(datasetName, split) ==
  [NoFilters EXCEPT !.datasetName = Some(datasetName),
                    !.split = IF Truthy(split) THEN split ELSE None]

VersionOf(record) ==
  [id |-> record.transactionId, timestamp |-> record.timestamp,
   tags |-> TagsOfRecord(record), receipt |-> record.receipt]

(* A mutated getLatestVersion: an empty result is thrown as an error. *)
GetLatestVersionThrowOnNone(rows, datasetName, split) ==
  {IF local.ok /\ Len(local.records) > 0
   THEN [ok |-> TRUE, results |-> <<VersionOf(local.records[1])>>]
   ELSE [ok |-> FALSE, results |-> <<>>] :
   local \in QueryRecords(rows, LineageOf(datasetName, split), "timestamp", "desc", 1, None)}

(* The outcomes of getLatestVersion: <<record>>, or <<>> for null. *)
GetLatestVersion(rows, datasetName, split) ==
  {IF local.ok
   THEN [ok |-> TRUE,
         results |-> IF Len(local.records) > 0 THEN <<VersionOf(local.records[1])>> ELSE <<>>]
   ELSE [ok |-> FALSE, results |-> <<>>] :
   local \in QueryRecords(rows, LineageOf(datasetName, split), "timestamp", "desc", 1, None)}

(* The outcomes of getVersions: limit is left to the default of queryRecords. *)
GetVersions(rows, datasetName, split) ==
  {IF local.ok
   THEN [ok |-> TRUE,
         results |-> [i \in 1..Len(local.records) |-> VersionOf(local.records[i])]]
   ELSE [ok |-> FALSE, results |-> <<>>] :
   local \in QueryRecords(rows, LineageOf(datasetName, split), "timestamp", "desc",
                          DefaultLimit, None)}

(***************************************************************************)
(* The Coordinator used by one sequential client: uploads, each awaited,   *)
(* and queries between them.                                               *)
(***************************************************************************)
UploadRequests ==
  {[path |-> "data.bin", metadata |-> MetaA, wantReceipt |-> TRUE],
   [path |-> "data.bin", metadata |-> MetaB, wantReceipt |-> FALSE],
   [path |-> "more.bin", metadata |-> MetaC, wantReceipt |-> FALSE],
   [path |-> "missing.bin", metadata |-> MetaA, wantReceipt |-> FALSE]}

Signatures == {None, Some("signature")}

QueryRequests ==
  [filters : {NoFilters, OwnerFilters, TimeFilters},
   sortBy : {None}, sortOrder : {None, Some("asc")},
   limit : {None, Some(1)}, cursor : {None}]

DatasetNames == {"mnist", "cifar"}
Splits == {None, Some("train"), Some("test")}

(* The client has no call in progress and has taken the last result. *)
Quiescent ==
  /\ out = NoOut
  /\ batch.pc = "idle"
  /\ \A c \in DOMAIN calls : calls[c].pc = "idle"

Init ==
  /\ store = {}
  /\ upserted = {}
  /\ out = NoOut
  /\ trav = IdleTrav
  /\ now = 1
  /\ ledger = <<>>
  /\ calls = <<IdleCall>>
  /\ batch = IdleBatch
  /\ db = ReadyDb
  /\ fetch = NoFetch

QueryDataCall(options) ==
  /\ Quiescent
  /\ \E res \in QueryData(store, options) :
       out' = [op |-> "queryData", ok |-> res.ok, options |-> options,
               results |-> res.results, nextCursor |-> res.nextCursor]
  /\ UNCHANGED <<db, fetch, store, upserted, trav, coordVars>>

GetLatestVersionCall(datasetName, split) ==
  /\ Quiescent
  /\ \E res \in GetLatestVersion(store, datasetName, split) :
       out' = [op |-> "getLatestVersion", ok |-> res.ok, datasetName |-> datasetName,
               split |-> split, results |-> res.results]
  /\ UNCHANGED <<db, fetch, store, upserted, trav, coordVars>>

GetVersionsCall(datasetName, split) ==
  /\ Quiescent
  /\ \E res \in GetVersions(store, datasetName, split) :
       out' = [op |-> "getVersions", ok |-> res.ok, datasetName |-> datasetName,
               split |-> split, results |-> res.results]
  /\ UNCHANGED <<db, fetch, store, upserted, trav, coordVars>>

(* The caller takes the result of the query. *)
QuerySettled ==
  /\ out.op \in {"queryData", "getLatestVersion", "getVersions", "getById"}
  /\ out' = NoOut
  /\ UNCHANGED <<db, fetch, store, upserted, trav, coordVars>>

Next ==
  \/ \E c \in DOMAIN calls, q \in UploadRequests :
       UploadFileCall(c, q.path, q.metadata, q.wantReceipt)
  \/ \E c \in DOMAIN calls, g \in Signatures : RemoteWriteOk(c, g)
  \/ \E c \in DOMAIN calls : RemoteWriteFail(c)
  \/ \E c \in DOMAIN calls : IndexDone(c)
  \/ \E c \in DOMAIN calls : IndexFail(c)
  \/ \E c \in DOMAIN calls : CallSettled(c)
  \/ Tick
  \/ \E options \in QueryRequests : QueryDataCall(options)
  \/ \E d \in DatasetNames, p \in Splits : GetLatestVersionCall(d, p)
  \/ \E d \in DatasetNames, p \in Splits : GetVersionsCall(d, p)
  \/ QuerySettled

Spec == Init /\ [][Next]_vars

(***************************************************************************)
(* getLatestVersion / getVersions over a store that already holds one      *)
(* lineage of n records, n up to DefaultLimit + MaxExtra, indexed from     *)
(* records whose tags are the metadata object.                             *)
(***************************************************************************)
LineageRecord(i) ==
  [id |-> i, transactionId |-> i, timestamp |-> i,
   tags |-> JsObject(IF i % 2 = 0 THEN MetaA ELSE MetaC),
   receipt |-> None, createdAt |-> ToISOString(i)]

InitVersions ==
  /\ \E n \in 0..(DefaultLimit + MaxExtra) :
       /\ store = {RecordToRow(LineageRecord(i)) : i \in 1..n}
       /\ upserted = {LineageRecord(i) : i \in 1..n}
  /\ out = NoOut
  /\ trav = IdleTrav
  /\ now = 1
  /\ ledger = <<>>
  /\ calls = <<>>
  /\ batch = IdleBatch
  /\ db = ReadyDb
  /\ fetch = NoFetch

NextVersions ==
  \/ \E d \in DatasetNames, p \in Splits : GetLatestVersionCall(d, p)
  \/ \E d \in DatasetNames, p \in Splits : GetVersionsCall(d, p)
  \/ QuerySettled

SpecVersions == InitVersions /\ [][NextVersions]_vars

(***************************************************************************)
(* IrysUploader.batchUpload and AIRepository.batchUpload                   *)
(***************************************************************************)
DefaultBatchSize == 10

(* options.batchSize || 10 *)
BatchSizeOf(opt) == IF opt # None /\ opt[1] # 0 THEN opt[1] ELSE DefaultBatchSize

Min(a, b) == IF a <= b THEN a ELSE b
Max(a, b) == IF a >= b THEN a ELSE b

(* Array.prototype.slice turns an index into a position 0..n: a negative index
   counts from the end. *)
SliceIndex(k, n) == IF k < 0 THEN Max(n + k, 0) ELSE Min(k, n)

(* A mutated slice that takes one file more. *)
BatchLastOneMore(b) == Min(b.i + b.batchSize + 1, Len(b.files))

(* files.slice(i, i + batchSize), as the positions first..last of files *)
BatchFirst(b) == SliceIndex(b.i, Len(b.files)) + 1
BatchLast(b) == SliceIndex(b.i + b.batchSize, Len(b.files))

NoItemResult == [transactionId |-> 0, receipt |-> None, filePath |-> ""]

(* { ...result, filePath: file.filePath } *)
ItemResult(file, result) ==
  [transactionId |-> result.transactionId, receipt |-> result.receipt,
   filePath |-> file.filePath]

(* A mutated Promise.all: the values come in the order the promises settled. *)
PromiseAllByCompletion(res, first, last, order) ==
  [j \in 1..(last - first + 1) |-> res[order[Len(order) - (last - first + 1) + j]]]

(* await Promise.all(batchPromises): the values of the batch, in input order. *)
PromiseAll(res, first, last, order) ==
  [j \in 1..(last - first + 1) |-> res[first + j - 1]]

(* files.find(f => f.filePath === result.filePath)!.metadata *)
FindMetadata(files, filePath) ==
  LET j == CHOOSE j \in 1..Len(files) :
             /\ files[j].filePath = filePath
             /\ \A h \in 1..(j - 1) : files[h].filePath # filePath
  IN  files[j].metadata

(* A mutated map: the records are built without the receipt. *)
BatchDbRecordsNoReceipt(files, results, t) ==
  [r \in 1..Len(results) |->
     [id |-> results[r].transactionId, transactionId |-> results[r].transactionId,
      timestamp |-> t,
      tags |-> JSONstringify(JsObject(FindMetadata(files, results[r].filePath))),
      receipt |-> None, createdAt |-> ToISOString(t)]]

(* uploadResults.map(result => ({...})) at clock t *)
BatchDbRecords(files, results, t) ==
  [r \in 1..Len(results) |->
     [id |-> results[r].transactionId, transactionId |-> results[r].transactionId,
      timestamp |-> t,
      tags |-> JSONstringify(JsObject(FindMetadata(files, results[r].filePath))),
      receipt |-> results[r].receipt, createdAt |-> ToISOString(t)]]

(* A mutated loop: every file that is still pending is started at once. *)
StartBatchAll(b) ==
  [b EXCEPT !.pc = "uploading",
            !.st = [j \in 1..Len(b.files) |->
                      IF b.st[j] = "pending" THEN "inflight" ELSE b.st[j]],
            !.issued = [j \in 1..Len(b.files) |->
                          IF b.st[j] = "pending" THEN Append(b.issued[j], b.i)
                          ELSE b.issued[j]]]

(* The batch from position i is started: each file's uploadFile is in flight;
   issued keeps, per file, the positions i of the slices that started it. *)
StartBatch(b) ==
  [b EXCEPT !.pc = "uploading",
            !.st = [j \in 1..Len(b.files) |->
                      IF j \in BatchFirst(b)..BatchLast(b) THEN "inflight" ELSE b.st[j]],
            !.issued = [j \in 1..Len(b.files) |->
                          IF j \in BatchFirst(b)..BatchLast(b) THEN Append(b.issued[j], b.i)
                          ELSE b.issued[j]]]

(* The uploader has returned its results at clock t: the records are built and the
   first insert is issued; with no record the call returns. *)
AfterUploaderBatch(b, t) ==
  LET records == BatchDbRecords(b.files, b.results, t)
  IN  IF Len(records) = 0 THEN [b EXCEPT !.pc = "returned"]
      ELSE [b EXCEPT !.pc = "indexing", !.records = records, !.k = 1]

(* A mutated loop: the delay is also taken after a batch that ends at the last
   file. *)
AfterBatchResolvedAlwaysPace(b, t) ==
  LET pushed == [b EXCEPT !.results =
                   @ \o PromiseAll(b.res, BatchFirst(b), BatchLast(b), b.order)]
  IN  IF b.i + b.batchSize <= Len(b.files)
      THEN [pushed EXCEPT !.pc = "pacing", !.waits = @ + 1]
      ELSE AfterUploaderBatch(pushed, t)

(* Promise.all of the current batch resolved at clock t: its results are pushed,
   then the pacing delay starts or the loop ends.  waits counts the delays, up to
   one more than the number of files. *)
AfterBatchResolved(b, t) ==
  LET pushed == [b EXCEPT !.results =
                   @ \o PromiseAll(b.res, BatchFirst(b), BatchLast(b), b.order)]
  IN  IF b.i + b.batchSize < Len(b.files)
      THEN [pushed EXCEPT !.pc = "pacing", !.waits = Min(@ + 1, Len(b.files) + 1)]
      ELSE AfterUploaderBatch(pushed, t)

(* batchUpload(files, {receipt, batchSize}) is called. *)
BatchUploadStarted(files, wantReceipt, batchSizeOpt) ==
  /\ batch.pc = "idle"
  /\ LET b == [IdleBatch EXCEPT !.files = files, !.wantReceipt = wantReceipt,
                                !.batchSize = BatchSizeOf(batchSizeOpt),
                                !.batchSizeOpt = batchSizeOpt,
                                !.before = store,
                                !.st = [j \in 1..Len(files) |-> "pending"],
                                !.issued = [j \in 1..Len(files) |-> <<>>],
                                !.res = [j \in 1..Len(files) |-> NoItemResult]]
     IN  batch' = IF Len(files) = 0 THEN AfterUploaderBatch(b, now) ELSE StartBatch(b)
  /\ UNCHANGED <<db, fetch, store, upserted, out, trav, now, ledger, calls>>

(* The call of a client that has no other call in progress. *)
BatchUploadCall(files, wantReceipt, batchSizeOpt) ==
  /\ Quiescent
  /\ BatchUploadStarted(files, wantReceipt, batchSizeOpt)

(* The remote write of item j succeeds. *)
ItemWritten(j, signature) ==
  /\ j \in 1..Len(batch.files)
  /\ batch.st[j] = "inflight"
  /\ batch.files[j].filePath \in Files
  /\ LET id == Len(ledger) + 1
         o == UploaderUploadFile(batch.wantReceipt, RemoteResponse(id, signature))
         b == [batch EXCEPT !.st[j] = "ok",
                            !.res[j] = ItemResult(batch.files[j], o.result),
                            !.order = Append(@, j)]
         resolved == \A h \in BatchFirst(b)..BatchLast(b) : b.st[h] = "ok"
     IN  /\ ledger' = Append(ledger, [id |-> id, tags |-> PrepareTags(batch.files[j].metadata)])
         /\ batch' = IF batch.pc = "uploading" /\ resolved
                     THEN AfterBatchResolved(b, now) ELSE b
  /\ UNCHANGED <<db, fetch, store, upserted, out, trav, now, calls>>

ItemOk(j, signature) ==
  /\ Len(ledger) < MaxTx
  /\ ItemWritten(j, signature)

(* A mutated batchUpload: when an item fails, the records of the items written so
   far are inserted before the error is rethrown. *)
ItemFailIndexWritten(j) ==
  /\ j \in 1..Len(batch.files)
  /\ batch.st[j] = "inflight"
  /\ batch' = [batch EXCEPT !.st[j] = "failed", !.order = Append(@, j),
                            !.pc = IF @ = "uploading" THEN "thrown" ELSE @,
                            !.cause = IF batch.pc = "uploading" THEN "item" ELSE @]
  /\ store' = store \cup
               {RecordToRow(DbRecordOf(batch.res[h], batch.files[h].metadata, now)) :
                  h \in {i \in 1..Len(batch.files) : batch.st[i] = "ok"}}
  /\ UNCHANGED <<db, fetch, upserted, out, trav, now, ledger, calls>>

(* The upload of item j throws (file not found, or the remote write failed):
   Promise.all rejects and batchUpload throws; the sibling writes go on. *)
ItemFail(j) ==
  /\ j \in 1..Len(batch.files)
  /\ batch.st[j] = "inflight"
  /\ batch' = [batch EXCEPT !.st[j] = "failed", !.order = Append(@, j),
                            !.pc = IF @ = "uploading" THEN "thrown" ELSE @,
                            !.cause = IF batch.pc = "uploading" THEN "item" ELSE @]
  /\ UNCHANGED <<db, fetch, store, upserted, out, trav, now, ledger, calls>>

(* Promise.all of an empty slice resolves. *)
EmptyBatchResolved ==
  /\ batch.pc = "uploading"
  /\ BatchFirst(batch) > BatchLast(batch)
  /\ batch' = AfterBatchResolved(batch, now)
  /\ UNCHANGED <<db, fetch, store, upserted, out, trav, now, ledger, calls>>

(* The pacing delay between two batches has elapsed: i += batchSize.  From
   -files.length down every slice is empty and the loop goes on, so i is kept at
   the first position below it. *)
PacingDone ==
  /\ batch.pc = "pacing"
  /\ batch' = StartBatch([batch EXCEPT !.i = Max(@ + batch.batchSize,
                                                 batch.batchSize - Len(batch.files))])
  /\ UNCHANGED <<db, fetch, store, upserted, out, trav, now, ledger, calls>>

(* The insert of record k completes; after the last one batchUpload returns. *)
BatchIndexDone ==
  /\ batch.pc = "indexing"
  /\ LET res == InsertRecord(store, batch.records[batch.k])
     IN  /\ store' = res.rows
         /\ batch' = IF ~res.ok THEN [batch EXCEPT !.pc = "thrown", !.cause = "index"]
                     ELSE IF batch.k = Len(batch.records) THEN [batch EXCEPT !.pc = "returned"]
                     ELSE [batch EXCEPT !.k = @ + 1]
  /\ upserted' = LatestUpserts(upserted, batch.records[batch.k])
  /\ UNCHANGED <<db, fetch, out, trav, now, ledger, calls>>

(* The insert of record k is rejected by the storage engine: batchUpload throws. *)
BatchIndexFail ==
  /\ batch.pc = "indexing"
  /\ batch' = [batch EXCEPT !.pc = "thrown", !.cause = "index"]
  /\ UNCHANGED <<db, fetch, store, upserted, out, trav, now, ledger, calls>>

(* The caller takes the results or the error, once no write is in flight. *)
BatchSettled ==
  /\ batch.pc \in {"returned", "thrown"}
  /\ \A j \in 1..Len(batch.files) : batch.st[j] # "inflight"
  /\ batch' = IdleBatch
  /\ UNCHANGED <<db, fetch, store, upserted, out, trav, now, ledger, calls>>

FileA == [filePath |-> "data.bin", metadata |-> MetaA]
FileB == [filePath |-> "more.bin", metadata |-> MetaB]
FileC == [filePath |-> "data.bin", metadata |-> MetaC]
FileMissing == [filePath |-> "missing.bin", metadata |-> MetaD]

BatchInputs ==
  {<<>>, <<FileA, FileB>>, <<FileA, FileMissing, FileB>>, <<FileB, FileA, FileC>>}

BatchSizes == {None, Some(1), Some(2)}

InitBatch ==
  /\ store = {}
  /\ upserted = {}
  /\ out = NoOut
  /\ trav = IdleTrav
  /\ now = 1
  /\ ledger = <<>>
  /\ calls = <<>>
  /\ batch = IdleBatch
  /\ db = ReadyDb
  /\ fetch = NoFetch

NextBatch ==
  \/ \E files \in BatchInputs, w \in BOOLEAN, z \in BatchSizes : BatchUploadCall(files, w, z)
  \/ \E j \in 1..Len(batch.files), g \in Signatures : ItemOk(j, g)
  \/ \E j \in 1..Len(batch.files) : ItemFail(j)
  \/ PacingDone
  \/ BatchIndexDone
  \/ BatchIndexFail
  \/ BatchSettled
  \/ Tick

SpecBatch == InitBatch /\ [][NextBatch]_vars

(***************************************************************************)
(* An uploadFile call and a batchUpload call of two callers that run       *)
(* together while the clock advances; the writes and the inserts succeed.  *)
(***************************************************************************)
InitMixed ==
  /\ store = {}
  /\ upserted = {}
  /\ out = NoOut
  /\ trav = IdleTrav
  /\ now = 1
  /\ ledger = <<>>
  /\ calls = <<IdleCall>>
  /\ batch = IdleBatch
  /\ db = ReadyDb
  /\ fetch = NoFetch

NextMixed ==
  \/ \E c \in DOMAIN calls, f \in {FileA, FileB} :
       UploadFileStarted(c, f.filePath, f.metadata, FALSE)
  \/ \E c \in DOMAIN calls : RemoteWriteOk(c, None)
  \/ \E c \in DOMAIN calls : IndexDone(c)
  \/ \E c \in DOMAIN calls : CallSettled(c)
  \/ \E files \in {<<FileA, FileB>>}, z \in BatchSizes : BatchUploadStarted(files, FALSE, z)
  \/ \E j \in 1..Len(batch.files) : ItemOk(j, None)
  \/ PacingDone
  \/ BatchIndexDone
  \/ BatchSettled
  \/ Tick

SpecMixed == InitMixed /\ [][NextMixed]_vars

(***************************************************************************)
(* batchUpload calls with any integer batchSize option, where every remote *)
(* write completes, every delay elapses and every insert completes.        *)
(***************************************************************************)
NextLoop ==
  \/ \E files \in {<<>>, <<FileA>>, <<FileA, FileB>>},
          z \in {None} \cup {Some(k) : k \in (0 - MaxLimit)..MaxLimit} :
       BatchUploadCall(files, FALSE, z)
  \/ \E j \in 1..Len(batch.files) : ItemOk(j, None)
  \/ \E j \in 1..Len(batch.files) : ItemFail(j)
  \/ EmptyBatchResolved
  \/ PacingDone
  \/ BatchIndexDone
  \/ BatchSettled

SpecLoop ==
  /\ InitBatch
  /\ [][NextLoop]_vars
  /\ \A j \in 1..MaxTx : WF_vars(ItemOk(j, None) \/ ItemFail(j))
  /\ WF_vars(EmptyBatchResolved)
  /\ WF_vars(PacingDone)
  /\ WF_vars(BatchIndexDone)

(***************************************************************************)
(* One batchUpload call over n files, n up to DefaultBatchSize + MaxExtra, *)
(* whose writes all succeed, those of a batch completing in input order.   *)
(***************************************************************************)
(* The first write in flight succeeds. *)
ItemOkInOrder ==
  \E j \in 1..Len(batch.files) :
    /\ \A h \in 1..(j - 1) : batch.st[h] # "inflight"
    /\ ItemWritten(j, None)

NextPartition ==
  \/ \E n \in 0..(DefaultBatchSize + MaxExtra), z \in {None} \cup {Some(k) : k \in 1..MaxTx} :
       BatchUploadCall([j \in 1..n |-> FileA], FALSE, z)
  \/ ItemOkInOrder
  \/ PacingDone
  \/ BatchIndexDone

SpecPartition == InitBatch /\ [][NextPartition]_vars

(***************************************************************************)
(* The Coordinator under concurrent callers: two uploadFile / uploadBuffer *)
(* calls may be in progress together; batchUpload and the reads run while  *)
(* no other call is in progress.                                           *)
(***************************************************************************)
(* Database.getRecordByTransactionId: the record, or null. *)
GetRecordByTransactionId(rows, transactionId) ==
  LET hit == {r \in rows : r.transactionId = transactionId}
  IN  IF hit = {} THEN None ELSE Some(RowToRecord(CHOOSE r \in hit : TRUE))

GetByIdCall(transactionId) ==
  /\ Quiescent
  /\ out' = [op |-> "getById", ok |-> TRUE, id |-> transactionId,
             record |-> GetRecordByTransactionId(store, transactionId)]
  /\ UNCHANGED <<db, fetch, store, upserted, trav, coordVars>>

RepoFileRequests ==
  {[path |-> "data.bin", metadata |-> MetaA, wantReceipt |-> TRUE],
   [path |-> "missing.bin", metadata |-> MetaD, wantReceipt |-> FALSE]}
RepoBufferRequests ==
  {[path |-> "buffer.bin", metadata |-> MetaB, wantReceipt |-> FALSE]}
RepoBatchInputs == {<<FileA, FileB>>, <<FileC, FileMissing>>}
RepoBatchSizes == {None, Some(1)}

InitRepo ==
  /\ store = {}
  /\ upserted = {}
  /\ out = NoOut
  /\ trav = IdleTrav
  /\ now = 1
  /\ ledger = <<>>
  /\ calls = <<IdleCall, IdleCall>>
  /\ batch = IdleBatch
  /\ db = ReadyDb
  /\ fetch = NoFetch

NextRepo ==
  \/ \E c \in DOMAIN calls, q \in RepoFileRequests :
       UploadFileCall(c, q.path, q.metadata, q.wantReceipt)
  \/ \E c \in DOMAIN calls, q \in RepoBufferRequests :
       UploadBufferCall(c, q.path, q.metadata, q.wantReceipt)
  \/ \E c \in DOMAIN calls, g \in Signatures : RemoteWriteOk(c, g)
  \/ \E c \in DOMAIN calls : RemoteWriteFail(c)
  \/ \E c \in DOMAIN calls : IndexDone(c)
  \/ \E c \in DOMAIN calls : IndexFail(c)
  \/ \E c \in DOMAIN calls : CallSettled(c)
  \/ \E files \in RepoBatchInputs, z \in RepoBatchSizes : BatchUploadCall(files, TRUE, z)
  \/ \E j \in 1..Len(batch.files), g \in Signatures : ItemOk(j, g)
  \/ \E j \in 1..Len(batch.files) : ItemFail(j)
  \/ PacingDone
  \/ BatchIndexDone
  \/ BatchIndexFail
  \/ BatchSettled
  \/ \E id \in 1..MaxTx : GetByIdCall(id)
  \/ GetVersionsCall("mnist", None)
  \/ QuerySettled

SpecRepo == InitRepo /\ [][NextRepo]_vars

(***************************************************************************)
(* IrysQuery: the remote query client, and the gateway that answers it.    *)
(***************************************************************************)
(* switch (tag.name): the field a tag name is stored under, if any. *)
TagFieldOf(name) ==
  CASE name = "App" -> Some("app")
    [] name = "Content-Type" -> Some("contentType")
    [] name = "Dataset-Name" -> Some("datasetName")
    [] name = "Split" -> Some("split")
    [] name = "Version" -> Some("version")
    [] name = "Owner" -> Some("owner")
    [] name = "Created-At" -> Some("createdAt")
    [] OTHER -> None

(* tags.forEach(tag => ...) over result: an object is the function from the
   fields that were assigned to their values. *)
RECURSIVE ExtractTagsInto(_, _)
ExtractTagsInto(tags, result) ==
  IF tags = <<>> THEN result
  ELSE LET tag == Head(tags)
           f == TagFieldOf(tag.name)
       IN  ExtractTagsInto(Tail(tags),
             IF f = None THEN result
             ELSE [x \in DOMAIN result \cup {f[1]} |->
                     IF x = f[1] THEN tag.value ELSE result[x]])

(* A mutated extractTags: the case 'Created-At' is missing. *)
ExtractTagsNoCreatedAt(tags) ==
  ExtractTagsInto(SelectSeq(tags, LAMBDA tag : tag.name # "Created-At"), <<>>)

(* IrysQuery.extractTags *)
ExtractTags(tags) == ExtractTagsInto(tags, <<>>)

MsPerSecond == 1000

(* { name: { equalTo: N }, value: { equalTo: v } } for a supplied filter field *)
TagFilter(name, opt) ==
  IF Truthy(opt) THEN <<[name |-> [equalTo |-> name], value |-> [equalTo |-> opt[1]]]>>
  ELSE <<>>

(* IrysQuery.buildFilters *)
BuildFilters(filters) ==
  LET tagFilters ==
        TagFilter("Dataset-Name", filters.datasetName) \o TagFilter("Split", filters.split)
          \o TagFilter("Version", filters.version)
          \o TagFilter("Content-Type", filters.contentType)
          \o TagFilter("App", filters.app) \o TagFilter("Owner", filters.owner)
  IN  [tags |-> IF Len(tagFilters) > 0 THEN Some([some |-> [or |-> tagFilters]]) ELSE None,
       block |->
         IF filters.startTime # None \/ filters.endTime # None
         THEN Some([timestamp |->
                [greaterThanOrEqualTo |->
                   IF filters.startTime # None
                   THEN Some(DateGetTime(filters.startTime[1]) \div MsPerSecond) ELSE None,
                 lessThanOrEqualTo |->
                   IF filters.endTime # None
                   THEN Some(DateGetTime(filters.endTime[1]) \div MsPerSecond) ELSE None]])
         ELSE None]

(* options.sortOrder?.toUpperCase() *)
ToUpperCase(str) == CASE str = "asc" -> "ASC" [] str = "desc" -> "DESC" [] OTHER -> str

(* IrysQuery.buildVariables; sort is `${sortField}_${sortOrder}` *)
BuildVariables(options) ==
  [first |-> LimitOrDefault(options.limit),
   after |-> options.cursor,
   sort |-> [field |-> IF options.sortBy = Some("timestamp") THEN "BLOCK_HEIGHT"
                       ELSE "CREATED_AT",
             order |-> IF Truthy(options.sortOrder) THEN ToUpperCase(options.sortOrder[1])
                       ELSE "DESC"],
   filters |-> BuildFilters(options.filters)]

(* The gateway: a transaction passes { tags: { some: { or: [...] } } } when some
   tag of it satisfies one of the listed conditions, and { block: { timestamp } }
   when its block timestamp lies within the bounds. *)
GatewayMatches(node, filters) ==
  /\ filters.tags # None =>
       \E i \in 1..Len(node.tags) :
         \E k \in 1..Len(filters.tags[1].some.or) :
           LET cond == filters.tags[1].some.or[k]
           IN  node.tags[i].name = cond.name.equalTo /\ node.tags[i].value = cond.value.equalTo
  /\ filters.block # None =>
       LET range == filters.block[1].timestamp
       IN  /\ range.greaterThanOrEqualTo # None =>
                range.greaterThanOrEqualTo[1] <= node.block.timestamp
           /\ range.lessThanOrEqualTo # None =>
                node.block.timestamp <= range.lessThanOrEqualTo[1]

(* IrysQuery.queryData: the request variables and the mapped nodes that the
   gateway selects for them (the order and the paging are the gateway's). *)
IrysQueryData(nodes, options) ==
  LET variables == BuildVariables(options)
  IN  [variables |-> variables,
       results |-> {[id |-> node.id, timestamp |-> node.block.timestamp,
                     tags |-> ExtractTags(node.tags), receipt |-> None] :
                    node \in {n \in nodes : GatewayMatches(n, variables.filters)}}]

(* The metadata of the uploads and the requests of the remote reads. *)
RemoteMetadata ==
  {[MetaA EXCEPT !.app = a, !.split = p, !.owner = o] :
     a \in {"vault", "Owner"}, p \in {"train", "test"}, o \in {"alice", "bob"}}
RemoteFilters ==
  {NoFilters, OwnerFilters,
   [NoFilters EXCEPT !.owner = Some("alice")],
   [NoFilters EXCEPT !.startTime = Some(ToISOString(2 * MsPerSecond)),
                     !.endTime = Some(ToISOString(3 * MsPerSecond))]}
RemoteRequests ==
  [filters : RemoteFilters, sortBy : {None, Some("timestamp")},
   sortOrder : {None, Some("asc")}, limit : {None}, cursor : {None}]

InitRemote ==
  /\ store = {}
  /\ upserted = {}
  /\ out = NoOut
  /\ trav = IdleTrav
  /\ now = 1
  /\ ledger = <<>>
  /\ calls = <<>>
  /\ batch = IdleBatch
  /\ db = ReadyDb
  /\ fetch = NoFetch

(* this.irys.uploadFile(filePath, { tags }) with tags = prepareTags(metadata): the
   ledger holds the transaction, in the block of the next second; metadata is kept
   beside it as the value the uploader was called with. *)
LedgerWrite(metadata) ==
  /\ out = NoOut
  /\ Len(ledger) < MaxTx
  /\ ledger' = Append(ledger, [id |-> Len(ledger) + 1, tags |-> PrepareTags(metadata),
                                block |-> [timestamp |-> Len(ledger) + 1],
                                metadata |-> metadata])
  /\ UNCHANGED <<db, fetch, store, upserted, out, trav, now, calls, batch>>

(* IrysQuery.queryData(options) against the transactions on the ledger. *)
RemoteQueryCall(options) ==
  /\ out = NoOut
  /\ LET res == IrysQueryData({ledger[i] : i \in 1..Len(ledger)}, options)
     IN  out' = [op |-> "remoteQuery", ok |-> TRUE, options |-> options,
                 variables |-> res.variables, results |-> res.results]
  /\ UNCHANGED <<db, fetch, store, upserted, trav, coordVars>>

(* The caller takes the result of the remote query. *)
RemoteQuerySettled ==
  /\ out.op = "remoteQuery"
  /\ out' = NoOut
  /\ UNCHANGED <<db, fetch, store, upserted, trav, coordVars>>

NextRemote ==
  \/ \E m \in RemoteMetadata : LedgerWrite(m)
  \/ \E options \in RemoteRequests : RemoteQueryCall(options)
  \/ RemoteQuerySettled

SpecRemote == InitRemote /\ [][NextRemote]_vars

(***************************************************************************)
(* Construction of the Database and the first operations on it.  The       *)
(* connection is in sqlite3's default (parallel) mode, never serialized:   *)
(* the statements issued and not yet executed run in any order.            *)
(***************************************************************************)
OperationKinds == {"insertRecord", "queryRecords", "getRecordByTransactionId"}

(* The record of the n-th operation, when it is an insert. *)
OperationRecord(n) ==
  [id |-> n, transactionId |-> n, timestamp |-> now, tags |-> JsObject(MetaA),
   receipt |-> None, createdAt |-> ToISOString(now)]

InitDb ==
  /\ store = {}
  /\ upserted = {}
  /\ out = NoOut
  /\ trav = IdleTrav
  /\ now = 1
  /\ ledger = <<>>
  /\ calls = <<>>
  /\ batch = IdleBatch
  /\ db \in {NewDatabase(existing) : existing \in BOOLEAN}
  /\ fetch = NoFetch

(* insertRecord, queryRecords or getRecordByTransactionId is called: its statement
   is issued. *)
DbOperationIssued(kind) ==
  /\ db.issued < MaxTx
  /\ db' = [db EXCEPT !.issued = @ + 1,
                      !.pending = @ \cup {[n |-> db.issued + 1, kind |-> kind, k |-> 0]}]
  /\ UNCHANGED <<store, upserted, out, trav, now, ledger, calls, batch, fetch>>

(* A statement of initialize() succeeds: the table (or index) exists, and the next
   statement of initialize() is issued, or its promise resolves. *)
SchemaStatementDone(s) ==
  /\ s \in db.pending
  /\ s.kind = "schema"
  /\ db' = [db EXCEPT !.table = TRUE,
                      !.pending = (@ \ {s}) \cup
                                  (IF s.k < Len(SchemaStatements)
                                   THEN {[s EXCEPT !.k = @ + 1]} ELSE {}),
                      !.init = IF s.k = Len(SchemaStatements) THEN "resolved" ELSE @]
  /\ UNCHANGED <<store, upserted, out, trav, now, ledger, calls, batch, fetch>>

(* A statement of initialize() is rejected by the storage engine: the promise of
   initialize(), which the constructor dropped, rejects. *)
SchemaStatementFailed(s) ==
  /\ s \in db.pending
  /\ s.kind = "schema"
  /\ db' = [db EXCEPT !.pending = @ \ {s}, !.init = "rejected"]
  /\ UNCHANGED <<store, upserted, out, trav, now, ledger, calls, batch, fetch>>

(* The statement of an operation executes: without the table it fails with "no such
   table" and the operation rejects with that error. *)
OperationStatementDone(s) ==
  /\ s \in db.pending
  /\ s.kind \in OperationKinds
  /\ db' = [db EXCEPT !.pending = @ \ {s},
                      !.done = @ \cup {[n |-> s.n, kind |-> s.kind, ok |-> db.table,
                                        error |-> IF db.table THEN "none"
                                                  ELSE "no such table"]}]
  /\ IF s.kind = "insertRecord" /\ db.table
     THEN /\ store' = InsertRecord(store, OperationRecord(s.n)).rows
          /\ upserted' = LatestUpserts(upserted, OperationRecord(s.n))
     ELSE UNCHANGED <<store, upserted>>
  /\ UNCHANGED <<out, trav, now, ledger, calls, batch, fetch>>

NextDb ==
  \/ \E kind \in OperationKinds : DbOperationIssued(kind)
  \/ \E s \in db.pending : SchemaStatementDone(s)
  \/ \E s \in db.pending : SchemaStatementFailed(s)
  \/ \E s \in db.pending : OperationStatementDone(s)

SpecDb == InitDb /\ [][NextDb]_vars

(***************************************************************************)
(* fetchFile calls of two callers on one local file system.                *)
(***************************************************************************)
OutPath == [dir |-> ".", id |-> 0, name |-> "out.bin"]

(* FetchOptions: {transactionId, localPath?, overwrite?} *)
FetchRequests ==
  [transactionId : 1..MaxLimit, localPath : {None, Some(OutPath)},
   overwrite : {None, Some(FALSE), Some(TRUE)}]

IdleFetch ==
  [pc |-> "idle", transactionId |-> 0, localPath |-> None, overwrite |-> FALSE,
   buffer |-> None, path |-> None, replaced |-> FALSE, error |-> "none"]

InitFetch ==
  /\ store = {}
  /\ upserted = {}
  /\ out = NoOut
  /\ trav = IdleTrav
  /\ now = 1
  /\ ledger = <<>>
  /\ calls = <<>>
  /\ batch = IdleBatch
  /\ db = ReadyDb
  /\ fetch = [disk |-> [p \in {OutPath} \cup {GenerateLocalPath(t) : t \in 1..MaxLimit}
                           |-> None],
              calls |-> <<IdleFetch, IdleFetch>>]

(* fetchFile(options) is called: overwrite defaults to false; the gateway is
   asked for the file. *)
FetchFileCall(c, options) ==
  /\ fetch.calls[c].pc = "idle"
  /\ fetch' = [fetch EXCEPT !.calls[c] =
                  [IdleFetch EXCEPT !.pc = "fetching",
                                    !.transactionId = options.transactionId,
                                    !.localPath = options.localPath,
                                    !.overwrite = IF options.overwrite = None THEN FALSE
                                                  ELSE options.overwrite[1]]]
  /\ UNCHANGED <<store, upserted, out, trav, now, ledger, calls, batch, db>>

(* The response is ok and its body is read: finalLocalPath is localPath or the
   generated path; fs.pathExists is awaited. *)
FetchResponseOk(c) ==
  /\ fetch.calls[c].pc = "fetching"
  /\ LET call == fetch.calls[c]
     IN  fetch' = [fetch EXCEPT !.calls[c] =
                     [call EXCEPT !.pc = "checking",
                                  !.buffer = Some([data |-> call.transactionId]),
                                  !.path = IF call.localPath # None THEN call.localPath
                                           ELSE Some(GenerateLocalPath(call.transactionId))]]
  /\ UNCHANGED <<store, upserted, out, trav, now, ledger, calls, batch, db>>

(* The response is not ok: fetchFile throws. *)
FetchResponseNotOk(c) ==
  /\ fetch.calls[c].pc = "fetching"
  /\ fetch' = [fetch EXCEPT !.calls[c] = [@ EXCEPT !.pc = "thrown", !.error = "response"]]
  /\ UNCHANGED <<store, upserted, out, trav, now, ledger, calls, batch, db>>

(* fs.pathExists resolves: with a file at the path and overwrite false fetchFile
   throws, else fs.ensureDir is awaited. *)
PathChecked(c) ==
  /\ fetch.calls[c].pc = "checking"
  /\ LET exists == fetch.disk[fetch.calls[c].path[1]] # None
     IN  fetch' = [fetch EXCEPT !.calls[c] =
                     IF exists /\ ~@.overwrite
                     THEN [@ EXCEPT !.pc = "thrown", !.error = "exists"]
                     ELSE [@ EXCEPT !.pc = "ensuring"]]
  /\ UNCHANGED <<store, upserted, out, trav, now, ledger, calls, batch, db>>

(* fs.ensureDir resolves: fs.writeFile is awaited. *)
DirEnsured(c) ==
  /\ fetch.calls[c].pc = "ensuring"
  /\ fetch' = [fetch EXCEPT !.calls[c].pc = "writing"]
  /\ UNCHANGED <<store, upserted, out, trav, now, ledger, calls, batch, db>>

(* fs.writeFile resolves: the file holds the buffer and fetchFile returns the path;
   replaced keeps whether a file was at the path when it was written. *)
FileWritten(c) ==
  /\ fetch.calls[c].pc = "writing"
  /\ LET path == fetch.calls[c].path[1]
     IN  fetch' = [fetch EXCEPT !.disk[path] = fetch.calls[c].buffer,
                                !.calls[c] = [@ EXCEPT !.pc = "returned",
                                                       !.replaced = fetch.disk[path] # None]]
  /\ UNCHANGED <<store, upserted, out, trav, now, ledger, calls, batch, db>>

(* The caller takes the path or the error. *)
FetchSettled(c) ==
  /\ fetch.calls[c].pc \in {"returned", "thrown"}
  /\ fetch' = [fetch EXCEPT !.calls[c] = IdleFetch]
  /\ UNCHANGED <<store, upserted, out, trav, now, ledger, calls, batch, db>>

NextFetch ==
  \/ \E c \in DOMAIN fetch.calls, options \in FetchRequests : FetchFileCall(c, options)
  \/ \E c \in DOMAIN fetch.calls : FetchResponseOk(c)
  \/ \E c \in DOMAIN fetch.calls : FetchResponseNotOk(c)
  \/ \E c \in DOMAIN fetch.calls : PathChecked(c)
  \/ \E c \in DOMAIN fetch.calls : DirEnsured(c)
  \/ \E c \in DOMAIN fetch.calls : FileWritten(c)
  \/ \E c \in DOMAIN fetch.calls : FetchSettled(c)

SpecFetch == InitFetch /\ [][NextFetch]_vars

(***************************************************************************)
(* Claims on the Record Store and the Query Engine (SpecStore).            *)
(***************************************************************************)
CeilDiv(n, b) == (n + b - 1) \div b
TravOrder == OrElse(trav.options.sortOrder, "desc")
TravLimit == LimitOrDefault(trav.options.limit)
TravMatching == {r \in store : WhereFilters(r, trav.options.filters)}
DistinctTimestamps(rows) == \A r, q \in rows : r.timestamp = q.timestamp => r = q

(* C1: pagination completeness.  When a traversal that followed nextCursor from no
   cursor has ended (nextCursor absent) and the matching records have pairwise
   distinct timestamps, the pages hold every matching record exactly once and
   nothing else. *)
C1_PaginationComplete ==
  (trav.state = "done" /\ DistinctTimestamps(TravMatching)) =>
    /\ \A i, j \in 1..Len(trav.seen) : trav.seen[i].id = trav.seen[j].id => i = j
    /\ {trav.seen[i].id : i \in 1..Len(trav.seen)} = {r.transactionId : r \in TravMatching}
    /\ \A i \in 1..Len(trav.seen) :
         \E r \in TravMatching : /\ r.transactionId = trav.seen[i].id
                                 /\ r.timestamp = trav.seen[i].timestamp

(* A traversal of three pages of one record each that ended, under a tag filter. *)
C1_Witness ==
  /\ trav.state = "done"
  /\ DistinctTimestamps(TravMatching)
  /\ trav.options.limit = Some(1)
  /\ trav.options.filters = OwnerFilters
  /\ Len(trav.seen) = 3

(* C2: a page holds at most limit records; nextCursor is present exactly when more
   than limit records satisfy the filters and the cursor condition, and then it is
   the decimal string of the timestamp of the last record of the page. *)
C2_PageAndCursor ==
  trav.state \in {"open", "done"} =>
    LET matching == {r \in TravMatching : WhereCursor(r, TravOrder, trav.options.cursor)}
    IN  /\ Len(trav.page) <= TravLimit
        /\ (trav.next # None) <=> (Cardinality(matching) > TravLimit)
        /\ trav.next # None =>
             /\ Len(trav.page) = TravLimit
             /\ trav.next = Some(NumToString(trav.page[Len(trav.page)].timestamp))

(* Timestamps 1, 2, 3 with limit 2, descending: the first page is 3, 2 with cursor
   "2", and the query with that cursor returned 1 and no cursor. *)
C2_Witness ==
  /\ trav.state = "done"
  /\ trav.options.limit = Some(2)
  /\ trav.options.sortOrder = None
  /\ trav.options.cursor = Some(NumToString(2))
  /\ Len(trav.seen) = 3
  /\ trav.seen[1].timestamp = 3 /\ trav.seen[2].timestamp = 2 /\ trav.seen[3].timestamp = 1
  /\ trav.next = None

(* C3: with a cursor c, every record of the page has timestamp < c when the order is
   desc and > c when it is asc. *)
C3_StrictlyAfterCursor ==
  (trav.state \in {"open", "done"} /\ trav.options.cursor # None) =>
    \A i \in 1..Len(trav.page) :
      IF TravOrder = "desc"
      THEN trav.page[i].timestamp < ParseInt(trav.options.cursor[1])
      ELSE trav.page[i].timestamp > ParseInt(trav.options.cursor[1])

(* An ascending page fetched with a cursor while a record with the cursor's
   timestamp is in the store. *)
C3_Witness ==
  /\ trav.state = "done"
  /\ trav.options.cursor # None
  /\ TravOrder = "asc"
  /\ Len(trav.page) > 0
  /\ \E r \in TravMatching : r.timestamp = ParseInt(trav.options.cursor[1])

(* C4: upsert idempotence.  The store holds exactly one row for every id ever
   upserted and none for any other id; the row has the tags, timestamp, receipt and
   createdAt of the most recent upsert of that id; no upsert reports an error. *)
C4_UpsertIdempotent ==
  /\ \A u \in upserted :
       /\ Cardinality({r \in store : r.id = u.id}) = 1
       /\ \A r \in store : r.id = u.id =>
            /\ JSONparse(r.tags) = u.tags
            /\ r.timestamp = u.timestamp
            /\ r.receipt = u.receipt
            /\ r.createdAt = u.createdAt
  /\ \A r \in store : \E u \in upserted : u.id = r.id
  /\ out.op = "insertRecord" => out.ok

(* An id was upserted again with different tags while another id is in the store. *)
C4_Witness ==
  /\ out.op = "insertRecord"
  /\ out.replaced /\ out.retagged
  /\ Cardinality(store) >= 2

(* C24: both sort fields are supported.  A query with sortBy = createdAt succeeds
   and its page holds matching records ordered by their createdAt in the
   requested order. *)
C24_SortByCreatedAt ==
  (trav.state # "idle" /\ trav.options.sortBy = Some("createdAt")) =>
    /\ trav.state # "failed"
    /\ \A i, j \in 1..Len(trav.page) :
         i < j =>
           \E r, q \in TravMatching :
             /\ r.transactionId = trav.page[i].id
             /\ q.transactionId = trav.page[j].id
             /\ IF TravOrder = "desc" THEN DateGetTime(r.createdAt) >= DateGetTime(q.createdAt)
                ELSE DateGetTime(r.createdAt) <= DateGetTime(q.createdAt)

(* The traversal sorts by timestamp (the default of queryData). *)
TravByTimestamp == OrElse(trav.options.sortBy, "timestamp") = "timestamp"
SeenIds(n) == {trav.seen[i].id : i \in 1..n}

(* The matching records that share the timestamp of a returned cursor and were not
   in the pages up to that cursor. *)
TiesLeftBehind ==
  {r \in TravMatching :
     \E k \in 1..Len(trav.cursors) :
       /\ r.timestamp = ParseInt(trav.cursors[k])
       /\ r.transactionId \notin SeenIds(k * TravLimit)}

(* C26: ties in timestamp are not tie-broken.  A matching record that shares the
   timestamp of a cursor and is not in the pages up to that cursor is in no later
   page; when the traversal has ended, the pages hold every matching record but
   these, each once, so with such a tie the traversal does not return every
   matching record. *)
C26_TiesAtBoundarySkipped ==
  (trav.state \in {"open", "done"} /\ TravByTimestamp) =>
    /\ \A r \in TiesLeftBehind : r.transactionId \notin SeenIds(Len(trav.seen))
    /\ trav.state = "done" =>
         /\ SeenIds(Len(trav.seen)) = {r.transactionId : r \in TravMatching \ TiesLeftBehind}
         /\ \A i, j \in 1..Len(trav.seen) : trav.seen[i].id = trav.seen[j].id => i = j

(* A traversal ended without one of the matching records: two records share the
   timestamp at the boundary of a page of one. *)
C26_Witness ==
  /\ trav.state = "done"
  /\ TravByTimestamp
  /\ trav.options.limit = Some(1)
  /\ Cardinality(TravMatching) = 3
  /\ Cardinality(TiesLeftBehind) = 1
  /\ Len(trav.seen) = 2

(* C27: over an unchanged store and with sortBy = timestamp no record is in two
   pages, also when records share timestamps, and the cursors of successive pages
   are strictly decreasing (desc) or strictly increasing (asc). *)
C27_CursorsStrictlyMonotone ==
  (trav.state \in {"open", "done"} /\ TravByTimestamp) =>
    /\ \A i, j \in 1..Len(trav.seen) : trav.seen[i].id = trav.seen[j].id => i = j
    /\ \A k \in 1..(Len(trav.cursors) - 1) :
         IF TravOrder = "desc"
         THEN ParseInt(trav.cursors[k]) > ParseInt(trav.cursors[k + 1])
         ELSE ParseInt(trav.cursors[k]) < ParseInt(trav.cursors[k + 1])

(* Two cursors were returned while two matching records share a timestamp. *)
C27_Witness ==
  /\ trav.state = "done"
  /\ TravByTimestamp
  /\ Len(trav.cursors) = 2
  /\ ~DistinctTimestamps(TravMatching)

(* The number of queries the traversal has made. *)
TravQueries == Len(trav.cursors) + (IF trav.state = "done" THEN 1 ELSE 0)

(* C28 as stated: a traversal over a store of N records with limit L ends after
   at most ceil(N/L) queries. *)
C28_Original ==
  (trav.state = "done" /\ TravByTimestamp) =>
    TravQueries <= CeilDiv(Cardinality(store), TravLimit)

(* C28: a cursor traversal terminates.  Over an unchanged store of N records with
   limit L and sortBy = timestamp, a traversal that has not ended has made fewer
   than ceil(N/L) queries, and one that has ended has made at most
   max(1, ceil(N/L)) queries (the one query of an empty store included), with or
   without duplicate timestamps. *)
C28_TraversalTerminates ==
  (trav.state \in {"open", "done"} /\ TravByTimestamp) =>
    /\ TravQueries <= Max(1, CeilDiv(Cardinality(store), TravLimit))
    /\ trav.state = "open" => TravQueries < CeilDiv(Cardinality(store), TravLimit)

(* Three records of one timestamp each, limit 1: the traversal ended with the
   third query. *)
C28_Witness ==
  /\ trav.state = "done"
  /\ TravByTimestamp
  /\ trav.options.limit = Some(1)
  /\ Cardinality(store) = 3
  /\ TravQueries = 3

(***************************************************************************)
(* Claims on the Coordinator (Spec, SpecVersions).                         *)
(***************************************************************************)
(* The metadata a stored row carries, and the filter fields as the claims read them. *)
MetaOfRow(r) == r.tags.m
TagFilterFields == {"datasetName", "split", "version", "contentType", "app", "owner"}
SatisfiesFilters(r, filters) ==
  /\ \A f \in TagFilterFields : filters[f] # None => MetaOfRow(r)[f] = filters[f][1]
  /\ filters.startTime # None => DateGetTime(filters.startTime[1]) <= r.timestamp
  /\ filters.endTime # None => r.timestamp <= DateGetTime(filters.endTime[1])
InLineage(r, datasetName, split) ==
  /\ MetaOfRow(r).datasetName = datasetName
  /\ split # None => MetaOfRow(r).split = split[1]

(* C5: filter conjunction.  A query without a limit (fewer than 50 records stored)
   returns exactly the records whose tags equal every supplied tag filter and whose
   timestamp lies within the inclusive time bounds. *)
C5_FilterConjunction ==
  (out.op = "queryData" /\ out.ok /\ out.options.limit = None) =>
    {out.results[i].id : i \in 1..Len(out.results)}
      = {r.transactionId : r \in {q \in store : SatisfiesFilters(q, out.options.filters)}}

(* C6: getLatestVersion returns the record of the lineage with the greatest
   timestamp, and null exactly when the lineage has no record. *)
C6_LatestVersion ==
  (out.op = "getLatestVersion" /\ out.ok) =>
    LET lineage == {r \in store : InLineage(r, out.datasetName, out.split)}
    IN  IF lineage = {} THEN out.results = <<>>
        ELSE /\ Len(out.results) = 1
             /\ \E r \in lineage :
                  /\ r.transactionId = out.results[1].id
                  /\ \A q \in lineage : q.timestamp <= r.timestamp

(* C7: getVersions returns every record of the lineage, however many there are. *)
C7_AllVersions ==
  (out.op = "getVersions" /\ out.ok) =>
    {out.results[i].id : i \in 1..Len(out.results)}
      = {r.transactionId : r \in {q \in store : InLineage(q, out.datasetName, out.split)}}

(* C10: uploadFile is atomic on remote failure.  Whenever the remote write of a call
   has thrown (the file precheck included), the call has thrown and the store is as
   it was when the call was made. *)
C10_AtomicOnRemoteFailure ==
  \A c \in DOMAIN calls :
    calls[c].remoteFailed =>
      /\ calls[c].pc = "thrown"
      /\ calls[c].record = None
      /\ store = calls[c].before

(* A remote write (not the precheck) failed while the store held a record. *)
C10_Witness ==
  \E c \in DOMAIN calls :
    /\ calls[c].remoteFailed
    /\ calls[c].path \in Files
    /\ calls[c].pc = "thrown"
    /\ store # {}

(* How a caller can tell errors apart without reading the nested text: the class
   of the error and the head of its message. *)
ErrorKind(error) == <<error.name, Head(error.message)>>
(* The error uploadFile throws when the uploader failed with the given response. *)
UploadFailureOf(response) ==
  AfterUploader(IdleCall, UploaderUploadFile(FALSE, response), response, 1).error

(* C11: a failed uploadFile has a distinct error kind per cause.  The error of a
   call whose insert failed after a successful remote write is of another kind than
   the error of every call whose remote write (or file check) failed. *)
C11_DistinctErrorKinds ==
  \A c \in DOMAIN calls :
    (calls[c].pc = "thrown" /\ ~calls[c].remoteFailed) =>
      \A response \in {RemoteFailed, FileNotFound} :
        ErrorKind(calls[c].error) # ErrorKind(UploadFailureOf(response))

(* The read asks for records by tag values that the metadata m has. *)
FiltersOnOwnTags(filters, m) ==
  /\ \E f \in TagFilterFields : filters[f] # None
  /\ \A f \in TagFilterFields : filters[f] # None => filters[f][1] = m[f]
  /\ filters.startTime = None /\ filters.endTime = None
HasResultOf(results, u) ==
  \E i \in 1..Len(results) :
    results[i].id = u.transactionId /\ results[i].tags = JsObject(u.tags.m)

(* C13: read-your-writes through the filter path.  After an upload with metadata M
   has returned, a queryData or getVersions that filters on tag values of M returns
   its record with tags M, and so does getLatestVersion when no record of the
   lineage is newer. *)
C13_ReadYourWrites ==
  \A u \in upserted :
    /\ (out.op = "queryData" /\ out.ok /\ out.options.limit = None
          /\ FiltersOnOwnTags(out.options.filters, u.tags.m))
        => HasResultOf(out.results, u)
    /\ (out.op = "getVersions" /\ out.ok
          /\ FiltersOnOwnTags(LineageOf(out.datasetName, out.split), u.tags.m))
        => HasResultOf(out.results, u)
    /\ (out.op = "getLatestVersion" /\ out.ok
          /\ FiltersOnOwnTags(LineageOf(out.datasetName, out.split), u.tags.m)
          /\ \A v \in upserted : v # u => v.timestamp < u.timestamp)
        => HasResultOf(out.results, u)

(* C15: zero matches is a successful outcome.  When no stored record satisfies the
   filters, queryData returns an empty page without nextCursor, getVersions an
   empty list and getLatestVersion null, and none of them throws. *)
C15_NoMatchIsSuccess ==
  /\ (out.op = "queryData"
        /\ {q \in store : SatisfiesFilters(q, out.options.filters)} = {})
      => (out.ok /\ out.results = <<>> /\ out.nextCursor = None)
  /\ (out.op \in {"getVersions", "getLatestVersion"}
        /\ {q \in store : InLineage(q, out.datasetName, out.split)} = {})
      => (out.ok /\ out.results = <<>>)

(* getLatestVersion found no record of the lineage in a store that holds records. *)
C15_Witness ==
  /\ store # {}
  /\ out.op = "getLatestVersion" /\ out.ok /\ out.results = <<>>
  /\ {q \in store : InLineage(q, out.datasetName, out.split)} = {}

(* The records uploaded so far into the lineage that the read asks for. *)
UploadedLineage ==
  {u \in upserted : FiltersOnOwnTags(LineageOf(out.datasetName, out.split), u.tags.m)}

(* C17: after k awaited uploads into one lineage, getVersions returns k records
   and getLatestVersion returns the record of the last upload (transaction ids
   are given in the order of the uploads). *)
C17_VersionsAfterUploads ==
  /\ (out.op = "getVersions" /\ out.ok) => Len(out.results) = Cardinality(UploadedLineage)
  /\ (out.op = "getLatestVersion" /\ out.ok /\ UploadedLineage # {}) =>
       /\ Len(out.results) = 1
       /\ \A u \in UploadedLineage : u.transactionId <= out.results[1].id

(***************************************************************************)
(* Claims on the uploads of concurrent callers (SpecRepo).                 *)
(***************************************************************************)
(* The state of the upload of call slot c, read off the position of the call. *)
CallPhase(call) ==
  CASE call.pc = "idle" -> "Pending"
    [] call.pc = "remote" -> "RemoteWriteInFlight"
    [] call.pc = "indexing" -> "IndexingInFlight"
    [] call.pc = "returned" -> "Indexed"
    [] call.pc = "thrown" /\ call.remoteFailed -> "RemoteWriteFailed"
    [] call.pc = "thrown" /\ ~call.remoteFailed -> "IndexingFailed"

(* The state of the upload of item j of the batchUpload call b; its record is
   record j of the insert loop, which is at record b.k. *)
ItemPhase(b, j) ==
  IF j \notin 1..Len(b.files) \/ b.st[j] = "pending" THEN "Pending"
  ELSE IF b.st[j] = "inflight" THEN "RemoteWriteInFlight"
  ELSE IF b.st[j] = "failed" THEN "RemoteWriteFailed"
  ELSE IF b.pc = "returned" THEN "Indexed"
  ELSE IF b.pc = "indexing" \/ (b.pc = "thrown" /\ b.cause = "index")
       THEN IF j < b.k THEN "Indexed"
            ELSE IF j > b.k THEN "RemoteWriteSucceeded"
            ELSE IF b.pc = "indexing" THEN "IndexingInFlight" ELSE "IndexingFailed"
  ELSE "RemoteWriteSucceeded"

TerminalPhases == {"RemoteWriteFailed", "Indexed", "IndexingFailed"}

(* The transitions of the state machine; RemoteWriteSucceeded is passed through
   when the insert is issued in the step in which the remote write completes. *)
PhaseSteps ==
  {<<"Pending", "RemoteWriteInFlight">>,
   <<"RemoteWriteInFlight", "RemoteWriteFailed">>,
   <<"RemoteWriteInFlight", "RemoteWriteSucceeded">>,
   <<"RemoteWriteInFlight", "IndexingInFlight">>,
   <<"RemoteWriteSucceeded", "IndexingInFlight">>,
   <<"IndexingInFlight", "Indexed">>,
   <<"IndexingInFlight", "IndexingFailed">>}

(* The upload of call slot c makes a step of the state machine, or its call has
   ended and the slot is taken over by the next call. *)
CallStepOk(c) ==
  LET p == CallPhase(calls[c])
      q == CallPhase(calls'[c])
  IN  \/ p = q /\ (p \in TerminalPhases => calls'[c] = calls[c])
      \/ <<p, q>> \in PhaseSteps
      \/ p \in TerminalPhases /\ calls'[c] = IdleCall

ItemStepOk(j) ==
  LET p == ItemPhase(batch, j)
      q == ItemPhase(batch', j)
  IN  \/ p = q
      \/ <<p, q>> \in PhaseSteps
      \/ batch.pc \in {"returned", "thrown"} /\ batch' = IdleBatch

(* The rows change only by the insert of an upload whose insert is in flight. *)
UpsertStepOk ==
  store' # store =>
    \/ \E c \in DOMAIN calls :
         /\ CallPhase(calls[c]) = "IndexingInFlight"
         /\ CallPhase(calls'[c]) = "Indexed"
         /\ store' = InsertRecord(store, calls[c].record[1]).rows
    \/ /\ ItemPhase(batch, batch.k) = "IndexingInFlight"
       /\ ItemPhase(batch', batch.k) = "Indexed"
       /\ store' = InsertRecord(store, batch.records[batch.k]).rows

(* An upload whose insert was issued has its own transaction on the ledger. *)
IndexedAfterRemote ==
  /\ \A c \in DOMAIN calls :
       CallPhase(calls[c]) \in {"IndexingInFlight", "Indexed", "IndexingFailed"} =>
         /\ ~calls[c].remoteFailed
         /\ calls[c].record # None
         /\ calls[c].record[1].id = calls[c].result.transactionId
         /\ calls[c].record[1].id \in 1..Len(ledger)
         /\ ledger[calls[c].record[1].id].tags = PrepareTags(calls[c].metadata)
  /\ \A j \in 1..Len(batch.files) :
       ItemPhase(batch, j) \in {"IndexingInFlight", "Indexed", "IndexingFailed"} =>
         /\ batch.st[j] = "ok"
         /\ batch.records[j].id = batch.res[j].transactionId
         /\ batch.records[j].id \in 1..Len(ledger)
         /\ ledger[batch.records[j].id].tags = PrepareTags(batch.files[j].metadata)

(* C12: every upload (uploadFile, uploadBuffer, each item of batchUpload) follows
   Pending -> RemoteWriteInFlight -> {RemoteWriteFailed | RemoteWriteSucceeded ->
   IndexingInFlight -> {Indexed | IndexingFailed}}: every step is a transition of
   the machine, a terminal state is left only when the call has ended, and a record
   is inserted only by an upload whose own remote write has succeeded. *)
C12_UploadStateMachine ==
  [][/\ \A c \in DOMAIN calls : CallStepOk(c)
     /\ \A j \in 1..Len(batch.files) \cup 1..Len(batch'.files) : ItemStepOk(j)
     /\ UpsertStepOk
     /\ IndexedAfterRemote]_vars

(* One call has indexed a buffer while the other failed at the file check, and a
   record of an earlier upload is in the store. *)
C12_Witness ==
  /\ \E c \in DOMAIN calls : calls[c].buffer /\ CallPhase(calls[c]) = "Indexed"
  /\ \E c \in DOMAIN calls : ~PathExists(calls[c]) /\ CallPhase(calls[c]) = "RemoteWriteFailed"
  /\ Cardinality(store) >= 2

(* C16: concurrent uploads are safe.  For every interleaving of two calls, a call
   that has returned has exactly one row, under its own transaction id, with the
   metadata and the receipt of that call; and every row carries the metadata that
   was written to the ledger under its id. *)
C16_ConcurrentUploads ==
  /\ \A c \in DOMAIN calls :
       calls[c].pc = "returned" =>
         LET mine == {r \in store : r.id = calls[c].result.transactionId}
         IN  /\ Cardinality(mine) = 1
             /\ \A r \in mine : /\ MetaOfRow(r) = calls[c].metadata
                                 /\ r.receipt = calls[c].result.receipt
                                 /\ r.transactionId = r.id
  /\ \A r \in store :
       /\ r.id \in 1..Len(ledger)
       /\ ledger[r.id].tags = PrepareTags(MetaOfRow(r))
  /\ \A c, d \in DOMAIN calls :
       (c # d /\ calls[c].pc \in {"indexing", "returned"}
              /\ calls[d].pc \in {"indexing", "returned"})
         => calls[c].result.transactionId # calls[d].result.transactionId

(* Call 1 has returned while call 2, whose remote write completed first, still
   waits for its insert. *)
C16_Witness ==
  /\ Len(calls) >= 2
  /\ calls[1].pc = "returned"
  /\ calls[2].pc = "indexing"
  /\ calls[2].result.transactionId < calls[1].result.transactionId
  /\ calls[1].metadata # calls[2].metadata

(* C18: no record is ever deleted.  In every step the ids in the store are kept,
   every indexed transaction stays retrievable by getRecordByTransactionId, and a
   row that changes is replaced by the record upserted in that step under its id. *)
C18_NoRecordDeleted ==
  [][/\ {r.id : r \in store} \subseteq {r.id : r \in store'}
     /\ \A r \in store : GetRecordByTransactionId(store', r.transactionId) # None
     /\ \A r \in store :
          r \notin store' =>
            \E u \in upserted' :
              u \notin upserted /\ u.id = r.id /\ RecordToRow(u) \in store']_vars

(* A record was retrieved by its transaction id from a store of several records. *)
C18_Witness ==
  /\ out.op = "getById"
  /\ out.record # None
  /\ Cardinality(store) >= 2
  /\ out.id < Cardinality(store)

(***************************************************************************)
(* Claims on the remote ledger and its query client (SpecRemote).          *)
(***************************************************************************)
TagNames == {"App", "Content-Type", "Dataset-Name", "Split", "Version", "Owner", "Created-At"}

(* C19: every remote write carries exactly the seven tags, each once, with the
   values of the metadata fields, and extractTags turns the tag list back into the
   metadata, also in the results of a remote query. *)
C19_TagRoundTrip ==
  /\ \A i \in 1..Len(ledger) :
       LET tags == ledger[i].tags
           m == ledger[i].metadata
       IN  /\ Len(tags) = 7
           /\ \A name \in TagNames :
                /\ Cardinality({k \in 1..Len(tags) : tags[k].name = name}) = 1
                /\ \A k \in 1..Len(tags) :
                     tags[k].name = name => tags[k].value = m[TagFieldOf(name)[1]]
           /\ ExtractTags(tags) = m
  /\ out.op = "remoteQuery" =>
       \A r \in out.results : r.tags = ledger[r.id].metadata

(* A remote query returned a transaction one of whose tag values is itself the
   name of a tag. *)
C19_Witness ==
  /\ out.op = "remoteQuery"
  /\ \E r \in out.results : r.tags.app = "Owner" /\ r.tags.owner = "bob"

(* The row the local store holds for a transaction of the ledger: the tags are
   the metadata object, the timestamp is the block's in milliseconds. *)
LocalRowOf(node) ==
  RecordToRow([id |-> node.id, transactionId |-> node.id,
               timestamp |-> node.block.timestamp * MsPerSecond,
               tags |-> JsObject(node.metadata), receipt |-> None,
               createdAt |-> ToISOString(node.block.timestamp * MsPerSecond)])
(* The options with the defaults that AIRepository.queryData fills in. *)
WithLocalDefaults(options) ==
  [options EXCEPT !.sortBy = Some(OrElse(options.sortBy, "timestamp")),
                  !.sortOrder = Some(OrElse(options.sortOrder, "desc"))]
RemoteSelectsAsLocal ==
  {r.id : r \in out.results}
    = {ledger[i].id : i \in {k \in 1..Len(ledger) :
                               WhereFilters(LocalRowOf(ledger[k]), out.options.filters)}}
RemoteSortsAsLocal ==
  out.variables.sort = BuildVariables(WithLocalDefaults(out.options)).sort

(* C20: the remote query client honours the filter semantics of the local query
   engine.  For the same filters over the same records the remote request selects
   the records the local WHERE clauses select, and it asks for the order that the
   local query uses for the same options (timestamp descending when unspecified). *)
C20_RemoteSubstitutable ==
  out.op = "remoteQuery" => (RemoteSelectsAsLocal /\ RemoteSortsAsLocal)

(***************************************************************************)
(* Claims on batchUpload (SpecBatch).                                      *)
(***************************************************************************)
(* C8: batch partial failure.  When the upload of an item has failed, the call does
   not throw; once it has ended it has returned one result per input item, and
   every item whose write succeeded carries its {id, receipt}. *)
C8_BatchPartialFailure ==
  (batch.pc \in {"returned", "thrown"} /\ batch.cause # "index"
     /\ \E j \in 1..Len(batch.files) : batch.st[j] = "failed") =>
    /\ batch.pc = "returned"
    /\ Len(batch.results) = Len(batch.files)
    /\ \A j \in 1..Len(batch.files) :
         batch.st[j] = "ok" => batch.results[j] = batch.res[j]

(* C21: the batches of a batchUpload call run one after another.  The writes in
   flight all belong to the current batch and are at most batchSize; every item of
   an earlier batch has completed its write and no item of a later batch has been
   started. *)
C21_BatchesSequential ==
  batch.pc # "idle" =>
    /\ Cardinality({j \in 1..Len(batch.files) : batch.st[j] = "inflight"}) <= batch.batchSize
    /\ \A j \in 1..Len(batch.files) :
         /\ batch.st[j] = "inflight" => j \in BatchFirst(batch)..BatchLast(batch)
         /\ j < BatchFirst(batch) => batch.st[j] = "ok"
         /\ j > BatchLast(batch) => batch.st[j] = "pending"

(* The second batch of a call is in flight: one write of it has completed and
   another has not. *)
C21_Witness ==
  /\ batch.pc = "uploading"
  /\ batch.batchSize = 2
  /\ batch.i = 2
  /\ batch.st = <<"ok", "ok", "inflight">>

(* ceil(n / b) for b >= 1 *)

(* C22: a pacing delay separates every two consecutive batches and nothing else.
   A call over n > 0 files with batch size b has waited once per completed batch
   that is followed by another, ceil(n/b) - 1 times when the uploader is through;
   during a wait every write of the batches so far has completed, no write of the
   next batch has started, and a next batch exists. *)
C22_PacingBetweenBatches ==
  (batch.pc # "idle" /\ Len(batch.files) > 0) =>
    /\ batch.waits * batch.batchSize
         = batch.i + (IF batch.pc = "pacing" THEN batch.batchSize ELSE 0)
    /\ batch.waits <= CeilDiv(Len(batch.files), batch.batchSize) - 1
    /\ (batch.pc \in {"indexing", "returned"} \/ batch.cause = "index") =>
         batch.waits = CeilDiv(Len(batch.files), batch.batchSize) - 1
    /\ batch.pc = "pacing" =>
         /\ BatchLast(batch) < Len(batch.files)
         /\ \A j \in 1..Len(batch.files) :
              batch.st[j] = IF j <= BatchLast(batch) THEN "ok" ELSE "pending"

(* Three files in batches of one were uploaded with two waits. *)
C22_Witness ==
  /\ batch.pc = "returned"
  /\ Len(batch.files) = 3
  /\ batch.batchSize = 1
  /\ batch.waits = 2

(* C23: batchUpload partitions the files into contiguous batches in input order.
   With batch size b (10 when unspecified), file j is started exactly once, by the
   slice at position b * floor((j - 1) / b), so a slice holds b files but for the
   last; when the uploader is through every file has been started. *)
C23_ContiguousPartition ==
  batch.pc # "idle" =>
    LET b == IF batch.batchSizeOpt = None THEN 10 ELSE batch.batchSizeOpt[1]
    IN  \A j \in 1..Len(batch.files) :
          /\ Len(batch.issued[j]) <= 1
          /\ batch.issued[j] # <<>> => batch.issued[j][1] = b * ((j - 1) \div b)
          /\ batch.issued[j] # <<>> <=> batch.st[j] # "pending"
          /\ batch.pc \in {"indexing", "returned"} => Len(batch.issued[j]) = 1

(* Eleven files with the default batch size were uploaded: ten in the first batch,
   one in the second. *)
C23_Witness ==
  /\ batch.pc = "returned"
  /\ batch.batchSizeOpt = None
  /\ Len(batch.files) = 11
  /\ batch.issued[10] = <<0>>
  /\ batch.issued[11] = <<10>>

(* C14: a record is created exactly once per successful remote upload.  When a
   batchUpload call has ended without a failed insert and no write is in flight,
   every item whose remote write succeeded has exactly one row, whose id is the
   transaction id of that write. *)
C14_RecordPerRemoteWrite ==
  (batch.pc \in {"returned", "thrown"} /\ batch.cause # "index"
     /\ \A j \in 1..Len(batch.files) : batch.st[j] # "inflight") =>
    \A j \in 1..Len(batch.files) :
      batch.st[j] = "ok" =>
        Cardinality({r \in store : r.id = batch.res[j].transactionId}) = 1

(* The records whose insert has been issued and has not completed, and the
   timestamps of the records whose insert has been issued. *)
InsertsInFlight ==
  {calls[c].record[1] : c \in {d \in DOMAIN calls : calls[d].pc = "indexing"}}
    \cup (IF batch.pc = "indexing" THEN {batch.records[batch.k]} ELSE {})
IssuedTimestamps ==
  {r.timestamp : r \in store} \cup {r.timestamp : r \in InsertsInFlight}

(* C25: timestamps are assigned monotonically at write time.  In every step that
   issues the insert of a record B, also of an uploadFile call that runs together
   with a batchUpload, every record whose insert was issued before has a timestamp
   <= B.timestamp. *)
C25_TimestampsMonotone ==
  [][\A B \in InsertsInFlight' :
       (\A A \in InsertsInFlight : A.id # B.id) =>
         \A t \in IssuedTimestamps : t <= B.timestamp]_vars

(* C31: if batchUpload throws because a remote write failed, the call has issued
   no upsert: no record was built, no insert started, and the store is as it was
   when the call was made, also for the items of earlier batches and the siblings
   whose writes succeeded. *)
C31_NoUpsertOnRemoteFailure ==
  (batch.pc = "thrown" /\ batch.cause = "item") =>
    /\ batch.records = <<>>
    /\ batch.k = 0
    /\ store = batch.before

(* A call in batches of one threw on its third item after two writes succeeded. *)
C31_Witness ==
  /\ batch.pc = "thrown"
  /\ batch.cause = "item"
  /\ batch.batchSize = 1
  /\ batch.st = <<"ok", "ok", "failed">>

(* C32: when a batchUpload call has returned or thrown, no remote write started by
   the call is in flight. *)
C32_NoWriteInFlightAfterEnd ==
  batch.pc \in {"returned", "thrown"} =>
    \A j \in 1..Len(batch.files) : batch.st[j] # "inflight"

(* C33: batchUpload terminates.  For every file list and every integer batchSize
   option (0, absent and negative values included), a call in progress returns or
   throws, provided each remote write completes. *)
C33_BatchUploadTerminates ==
  (batch.pc \in {"uploading", "pacing", "indexing"}) ~> (batch.pc \in {"returned", "thrown"})

(* C34: the constructor starts initialize() without awaiting it; yet no statement of
   insertRecord, queryRecords or getRecordByTransactionId executes before the
   datasets table exists, and when initialize() fails the failure reaches a
   caller. *)
C34_InitializedBeforeUse ==
  /\ \A s \in db.done : s.ok
  /\ db.init = "rejected" => \E s \in db.done : s.error = "initialize"

(* C35: fetchFile with overwrite = false never replaces a file that exists at the
   target path, also when two such calls target the same path together: a call
   with overwrite = false that has written the file found no file there. *)
C35_NoOverwriteWithoutFlag ==
  \A c \in DOMAIN fetch.calls :
    (fetch.calls[c].pc = "returned" /\ ~fetch.calls[c].overwrite) =>
      ~fetch.calls[c].replaced

(* C29: when batchUpload has returned, the result has one entry per input item, and
   every returned transaction id has a record in the store (getRecordByTransactionId
   is not null) whose receipt is the returned receipt (absent when none was
   returned). *)
C29_BatchResultsIndexed ==
  batch.pc = "returned" =>
    /\ Len(batch.results) = Len(batch.files)
    /\ \A i \in 1..Len(batch.results) :
         LET found == GetRecordByTransactionId(store, batch.results[i].transactionId)
         IN  /\ found # None
             /\ found[1].receipt = batch.results[i].receipt

(* A call with three items and receipts returned. *)
C29_Witness ==
  /\ batch.pc = "returned"
  /\ Len(batch.files) = 3
  /\ \A i \in 1..Len(batch.results) : batch.results[i].receipt # None

(* C30: each record indexed by batchUpload carries the metadata of its own input
   item.  When the call has returned, for every i the tags stored for
   results[i].transactionId, read as queryData reads them, are files[i].metadata,
   also when two items have the same filePath but different metadata. *)
C30_BatchOwnMetadata ==
  batch.pc = "returned" =>
    \A i \in 1..Len(batch.results) :
      LET found == GetRecordByTransactionId(store, batch.results[i].transactionId)
      IN  found # None => TagsOfRecord(found[1]) = JsObject(batch.files[i].metadata)

(* C9: batch order preservation.  In the results of the uploader, entry i is the
   result of the write of files[i]: it has the file path of files[i], the
   transaction id that write received, and that transaction carries the tags of
   files[i]. *)
C9_BatchOrderPreserved ==
  batch.pc \in {"pacing", "indexing", "returned"} =>
    /\ batch.pc \in {"indexing", "returned"} => Len(batch.results) = Len(batch.files)
    /\ \A i \in 1..Len(batch.results) :
         /\ batch.results[i].filePath = batch.files[i].filePath
         /\ batch.results[i].transactionId = batch.res[i].transactionId
         /\ batch.results[i].transactionId \in 1..Len(ledger)
         /\ ledger[batch.results[i].transactionId].tags = PrepareTags(batch.files[i].metadata)

(* A call returned whose writes completed in another order than the input order. *)
C9_Witness ==
  /\ batch.pc = "returned"
  /\ Len(batch.files) >= 2
  /\ \E p, q \in 1..Len(batch.order) : p < q /\ batch.order[p] > batch.order[q]

====
